---- MODULE Spec2Model ----
(***************************************************************************)
(* Token-matching and value-transformation engine of the Optics MCP        *)
(* server: colour conversion (theme-generator.ts), WCAG contrast           *)
(* (utils/color.ts), exact match (utils/css-parser.ts), migration          *)
(* suggestion (tools/migration.ts), contrast evaluation                    *)
(* (tools/accessibility.ts), theme assembly (tools/theme-generator.ts),    *)
(* value extraction (utils/css-parser.ts), validation (tools/validate.ts)  *)
(* and replacement (tools/replace.ts).                                     *)
(*                                                                         *)
(* JavaScript strings are sequences of one-character strings, so that      *)
(* regular expressions, parseInt, toLowerCase and template literals are    *)
(* modelled by what they do to the characters.  JavaScript numbers are     *)
(* exact rationals or fixed-point integers; where the double arithmetic of *)
(* the code can differ from the exact value (a result that lies exactly on *)
(* a rounding tie) the inputs of the model avoid the tie.                  *)
(***************************************************************************)
EXTENDS Integers, Sequences, FiniteSets, TLC

VARIABLES
    catalog,   \* the token list the operations read (DesignToken[])
    op,        \* name of the last operation called, "init" before any call
    args,      \* the arguments of the last call
    result     \* the value the last call returned

vars == <<catalog, op, args, result>>

(***************************************************************************)
(* Characters and strings                                                  *)
(***************************************************************************)
Digits == <<"0", "1", "2", "3", "4", "5", "6", "7", "8", "9">>

LowerHex == <<"a", "b", "c", "d", "e", "f">>

UpperHex == <<"A", "B", "C", "D", "E", "F">>

UpperAlpha == <<"A", "B", "C", "D", "E", "F", "G", "H", "I", "J", "K", "L", "M",
    "N", "O", "P", "Q", "R", "S", "T", "U", "V", "W", "X", "Y", "Z">>

LowerAlpha == <<"a", "b", "c", "d", "e", "f", "g", "h", "i", "j", "k", "l", "m",
    "n", "o", "p", "q", "r", "s", "t", "u", "v", "w", "x", "y", "z">>

Range(s) == {s[i] : i \in 1..Len(s)}

IndexIn(c, s) == CHOOSE i \in 1..Len(s) : s[i] = c

IsDigit(c) == c \in Range(Digits)

IsHexDigit(c) == c \in Range(Digits) \cup Range(LowerHex) \cup Range(UpperHex)

\* \s of a JavaScript regular expression, for the characters the model uses
IsSpace(c) == c \in {" ", "\t", "\n", "\r"}

DigitVal(c) == IndexIn(c, Digits) - 1

HexVal(c) ==
    IF c \in Range(Digits) THEN IndexIn(c, Digits) - 1
    ELSE IF c \in Range(LowerHex) THEN 9 + IndexIn(c, LowerHex)
    ELSE 9 + IndexIn(c, UpperHex)

\* String.prototype.toLowerCase, one character
LowerChar(c) == IF c \in Range(UpperAlpha) THEN LowerAlpha[IndexIn(c, UpperAlpha)] ELSE c

toLowerCase(s) == [i \in 1..Len(s) |-> LowerChar(s[i])]

\* String.prototype.substring(from, to) with 0-based, end-exclusive indices
substring(s, from, to) ==
    LET a == IF from > Len(s) THEN Len(s) ELSE from
        b == IF to > Len(s) THEN Len(s) ELSE to
    IN  SubSeq(s, a + 1, b)

startsWith(s, p) == Len(s) >= Len(p) /\ SubSeq(s, 1, Len(p)) = p

\* String.prototype.trim
RECURSIVE trimStart(_)
trimStart(s) == IF s # <<>> /\ IsSpace(Head(s)) THEN trimStart(Tail(s)) ELSE s

RECURSIVE trimEnd(_)
trimEnd(s) ==
    IF s # <<>> /\ IsSpace(s[Len(s)]) THEN trimEnd(SubSeq(s, 1, Len(s) - 1)) ELSE s

trim(s) == trimEnd(trimStart(s))

\* String(n) for a non-negative integer: its decimal digits
RECURSIVE NumToStr(_)
NumToStr(n) ==
    IF n < 10 THEN <<Digits[n + 1]>> ELSE NumToStr(n \div 10) \o <<Digits[(n % 10) + 1]>>

\* length of the longest prefix of s made of decimal digits
RECURSIVE DigitPrefixLen(_)
DigitPrefixLen(s) ==
    IF s # <<>> /\ IsDigit(Head(s)) THEN 1 + DigitPrefixLen(Tail(s)) ELSE 0

RECURSIVE DecValue(_)
DecValue(s) == IF s = <<>> THEN 0 ELSE 10 * DecValue(SubSeq(s, 1, Len(s) - 1)) + DigitVal(s[Len(s)])

RECURSIVE HexPrefixLen(_)
HexPrefixLen(s) ==
    IF s # <<>> /\ IsHexDigit(Head(s)) THEN 1 + HexPrefixLen(Tail(s)) ELSE 0

RECURSIVE HexValue(_)
HexValue(s) == IF s = <<>> THEN 0 ELSE 16 * HexValue(SubSeq(s, 1, Len(s) - 1)) + HexVal(s[Len(s)])

\* the value parseInt yields for "not a number": an integer no parse and no
\* rounding of the model produces
NaN == 0 - 1

\* parseInt(s, 16) on a string without sign or blanks: the longest prefix of
\* hexadecimal digits, NaN when the first character is no hexadecimal digit
parseIntHex(s) ==
    IF HexPrefixLen(s) = 0 THEN NaN ELSE HexValue(SubSeq(s, 1, HexPrefixLen(s)))

\* parseInt(s) / parseFloat(s) on a string that starts with decimal digits and
\* has no fraction: the longest prefix of decimal digits
parseIntDec(s) ==
    IF DigitPrefixLen(s) = 0 THEN NaN ELSE DecValue(SubSeq(s, 1, DigitPrefixLen(s)))

Max2(a, b) == IF a >= b THEN a ELSE b

Min2(a, b) == IF a <= b THEN a ELSE b

\* Math.round(p / q) for p >= 0, q > 0: floor(p/q + 1/2)
RoundDiv(p, q) == (2 * p + q) \div (2 * q)

(***************************************************************************)
(* Theme colour derivation: hexToHSL (tools/theme-generator.ts)            *)
(***************************************************************************)
\* hex.replace('#', ''): a string pattern replaces the first occurrence only
RECURSIVE removeFirstHash(_)
removeFirstHash(s) ==
    IF s = <<>> THEN <<>>
    ELSE IF Head(s) = "#" THEN Tail(s)
    ELSE <<Head(s)>> \o removeFirstHash(Tail(s))

\* Math.round(h * 360) of the switch on max, for channels r, g, b in 0..255,
\* mx their maximum and d = max - min > 0.  The case labels are tried in the
\* order r, g, b.
HueDegrees(r, g, b, mx, d) ==
    IF mx = r THEN RoundDiv(60 * (g - b) + (IF g < b THEN 360 * d ELSE 0), d)
    ELSE IF mx = g THEN RoundDiv(60 * (b - r) + 120 * d, d)
    ELSE RoundDiv(60 * (r - g) + 240 * d, d)

\* Math.round(s * 100) for s = l > 0.5 ? d / (2 - max - min) : d / (max + min)
SaturationPercent(mx, mn) ==
    IF mx + mn > 255 THEN RoundDiv(100 * (mx - mn), 510 - (mx + mn))
    ELSE RoundDiv(100 * (mx - mn), mx + mn)

\* the triple for channels r, g, b in 0..255 with maximum mx and minimum mn
HslOfMaxMin(r, g, b, mx, mn) ==
    [h |-> IF mx # mn THEN HueDegrees(r, g, b, mx, mx - mn) ELSE 0,
     s |-> IF mx # mn THEN SaturationPercent(mx, mn) ELSE 0,
     l |-> RoundDiv(100 * (mx + mn), 510)]

\* With a channel that is NaN, Math.max and Math.min give NaN: max !== min
\* holds but no case label equals NaN, so h stays 0 while s and l are NaN.
HslOfChannels(r, g, b) ==
    IF r = NaN \/ g = NaN \/ b = NaN THEN [h |-> 0, s |-> NaN, l |-> NaN]
    ELSE HslOfMaxMin(r, g, b, Max2(r, Max2(g, b)), Min2(r, Min2(g, b)))

HslOfStripped(hex) ==
    HslOfChannels(parseIntHex(substring(hex, 0, 2)),
                  parseIntHex(substring(hex, 2, 4)),
                  parseIntHex(substring(hex, 4, 6)))

hexToHSL(hex) == HslOfStripped(removeFirstHash(hex))

(***************************************************************************)
(* Inputs of the colour conversions                                        *)
(***************************************************************************)
\* channel values within ChannelEdge of 0 and of 255 are sampled
ChannelEdge == 2

ChannelSamples == (0..ChannelEdge) \cup ((255 - ChannelEdge)..255) \cup {127, 128}

Hex2Upper(n) == <<(Digits \o UpperHex)[(n \div 16) + 1], (Digits \o UpperHex)[(n % 16) + 1]>>

Hex2Lower(n) == <<(Digits \o LowerHex)[(n \div 16) + 1], (Digits \o LowerHex)[(n % 16) + 1]>>

HexOf(r, g, b) == <<"#">> \o Hex2Upper(r) \o Hex2Upper(g) \o Hex2Upper(b)

ValidHexInputs ==
    {HexOf(r, g, b) : r \in ChannelSamples, g \in ChannelSamples, b \in ChannelSamples}
    \cup {<<"#">> \o Hex2Lower(r) \o Hex2Lower(170) \o Hex2Lower(b) :
            r \in ChannelSamples, b \in ChannelSamples}
    \cup {Hex2Upper(r) \o Hex2Upper(g) \o Hex2Upper(77) :
            r \in ChannelSamples, g \in ChannelSamples}

MalformedHexInputs ==
    { <<"#", "F", "0", "0">>,
      <<"#", "F", "F", "0", "0">>,
      <<"#", "G", "G", "0", "0", "0", "0">>,
      <<"#", "1", "2", "3", "4", "5", "G">>,
      <<"#", "F", "F", "0", "0", "0", "0", "8", "0">>,
      <<>>,
      <<"#", "1", "G", "3", "4", "5", "6">>, <<"#", "1", "2", "G", "4", "5", "6">>, <<"#", "G", "G", "G">>, <<"#", "1", "G", "3">>, <<"#", "F", "F">>, <<"#", "#", "F", "F", "F", "F", "F", "F">>, <<"F", "F", "F", "F", "F", "G">> }

\* '#' or nothing, then exactly six hexadecimal digits
IsHex6(s) ==
    LET body == IF s # <<>> /\ Head(s) = "#" THEN Tail(s) ELSE s
    IN  Len(body) = 6 /\ \A i \in 1..6 : IsHexDigit(body[i])

NoResult == [none |-> TRUE]

(***************************************************************************)
(* SpecColor: one colour conversion applied to one input                   *)
(***************************************************************************)
HexToHSLCall ==
    /\ op = "init"
    /\ "hex" \in DOMAIN args
    /\ op' = "hexToHSL"
    /\ result' = hexToHSL(args.hex)
    /\ UNCHANGED <<catalog, args>>

(***************************************************************************)
(* The catalog array across a call.  Every operation receives the catalog  *)
(* by reference as its tokens parameter; what the array holds after the    *)
(* call is the outcome of the array methods the handler calls on it.       *)
(***************************************************************************)
\* findMatchingToken: for..of reads the array
TokensAfterFindMatchingToken(tokens) == tokens

\* suggestTokenMigration: filter builds a new array, and without a category
\* the tokens array itself is iterated; push and sort act on suggestions
TokensAfterSuggestTokenMigration(tokens) == tokens

\* validateTokenUsage: findMatchingToken reads it, filter in
\* suggestTokenForValue builds a new array
TokensAfterValidateTokenUsage(tokens) == tokens

\* replaceHardCodedValues: findMatchingToken reads it; replace acts on the
\* code string
TokensAfterReplaceHardCodedValues(tokens) == tokens

\* checkTokenContrast: find reads it, filter in findBetterTokenCombination
\* builds a new array
TokensAfterCheckTokenContrast(tokens) == tokens

\* the array reordered in place, as a sort called on tokens itself leaves it
TokensReordered(tokens) == [i \in 1..Len(tokens) |-> tokens[Len(tokens) + 1 - i]]

\* checkAllCombinations: find and filter as above; push and sort act on
\* results
TokensAfterCheckAllCombinations(tokens) == tokens

\* generateTheme: [...designTokens] copies the array, map builds a new one
TokensAfterGenerateTheme(tokens) == tokens

(***************************************************************************)
(* Exact match: findMatchingToken (utils/css-parser.ts)                    *)
(***************************************************************************)
\* v.toLowerCase().replace(/\s+/g, '')
normalizeValue(v) == SelectSeq(toLowerCase(v), LAMBDA c : ~IsSpace(c))

\* null, the value findMatchingToken returns when no token matches; it is
\* falsy like the empty string, and no token has an empty name
Null == <<>>

\* the first token, in list order, whose normalized value equals the
\* normalized query
RECURSIVE FirstMatchFrom(_, _, _)
FirstMatchFrom(normalizedValue, tokens, i) ==
    IF i > Len(tokens) THEN Null
    ELSE IF normalizeValue(tokens[i].value) = normalizedValue THEN tokens[i].name
    ELSE FirstMatchFrom(normalizedValue, tokens, i + 1)

RECURSIVE LastMatchFrom(_, _, _)
LastMatchFrom(normalizedValue, tokens, i) ==
    IF i < 1 THEN Null
    ELSE IF normalizeValue(tokens[i].value) = normalizedValue THEN tokens[i].name
    ELSE LastMatchFrom(normalizedValue, tokens, i - 1)

findMatchingTokenLast(value, tokens) ==
    LastMatchFrom(normalizeValue(value), tokens, Len(tokens))

findMatchingToken(value, tokens) == FirstMatchFrom(normalizeValue(value), tokens, 1)

(***************************************************************************)
(* Migration suggestion (tools/migration.ts)                               *)
(***************************************************************************)
AllDigits(s) == s # <<>> /\ \A i \in 1..Len(s) : IsDigit(s[i])

endsWith(s, p) == Len(s) >= Len(p) /\ SubSeq(s, Len(s) - Len(p) + 1, Len(s)) = p

\* /^\d+<unit>$/
IsDigitsUnit(s, unit) ==
    endsWith(s, unit) /\ AllDigits(SubSeq(s, 1, Len(s) - Len(unit)))

\* /^\d+(\.\d+)?$/
IsPlainNumber(s) ==
    \/ AllDigits(s)
    \/ \E k \in 1..Len(s) :
        /\ s[k] = "."
        /\ AllDigits(SubSeq(s, 1, k - 1))
        /\ AllDigits(SubSeq(s, k + 1, Len(s)))

\* String.prototype.includes
Contains(s, p) == \E k \in 0..(Len(s) - Len(p)) : SubSeq(s, k + 1, k + Len(p)) = p

\* /^#[0-9a-fA-F]{3,6}$/
IsHashHex3to6(s) ==
    /\ Len(s) \in 4..7
    /\ s[1] = "#"
    /\ \A i \in 2..Len(s) : IsHexDigit(s[i])

detectValueType(value) ==
    IF IsHashHex3to6(value) \/ startsWith(value, <<"r", "g", "b", "(">>) \/ startsWith(value, <<"r", "g", "b", "a", "(">>)
        THEN "color"
    ELSE IF IsDigitsUnit(value, <<"p", "x">>) THEN "pixels"
    ELSE IF IsDigitsUnit(value, <<"r", "e", "m">>) THEN "rem"
    ELSE IF IsDigitsUnit(value, <<"e", "m">>) THEN "em"
    ELSE IF Len(value) = 3 /\ value[1] \in {"3", "4", "5", "6", "7"}
            /\ value[2] = "0" /\ value[3] = "0" THEN "font-weight"
    ELSE IF IsPlainNumber(value) THEN "number"
    \* /box-shadow|shadow/i
    ELSE IF Contains(toLowerCase(value), <<"s", "h", "a", "d", "o", "w">>) THEN "shadow"
    ELSE "string"

\* A similarity is the rational num/den; the quotient 0/0 is JavaScript's NaN
Sim(n, d) == [num |-> n, den |-> d]

SimIsNaN(x) == x.den = 0

\* a.similarity > b.similarity; false when either is NaN
SimGreater(a, b) == ~SimIsNaN(a) /\ ~SimIsNaN(b) /\ a.num * b.den > b.num * a.den

SimEqual(a, b) == ~SimIsNaN(a) /\ ~SimIsNaN(b) /\ a.num * b.den = b.num * a.den

SimGeq(a, b) == SimGreater(a, b) \/ SimEqual(a, b)

\* Math.max(0, 1 - diff / max) for diff = |num1 - num2| and max = max(num1, num2)
\* of two non-negative numbers: diff <= max, and 0/0 is NaN
MagnitudeSimilarity(num1, num2) ==
    Sim(Max2(num1, num2) - (IF num1 >= num2 THEN num1 - num2 ELSE num2 - num1),
        Max2(num1, num2))

calculateSimilarity(value1, value2, type) ==
    IF type = "color"
        THEN IF toLowerCase(value1) = toLowerCase(value2) THEN Sim(1, 1) ELSE Sim(0, 1)
    ELSE IF type \in {"pixels", "rem", "em"}
        \* parseFloat of a string of digits followed by the unit
        THEN MagnitudeSimilarity(parseIntDec(value1), parseIntDec(value2))
    ELSE IF type = "font-weight"
        THEN IF parseIntDec(value1) = parseIntDec(value2) THEN Sim(1, 1) ELSE Sim(1, 2)
    ELSE IF value1 = value2 THEN Sim(1, 1) ELSE Sim(3, 10)

\* the thresholds 0.9 and 0.7 taken inclusively
generateMigrationReasonInclusive(similarity) ==
    IF SimEqual(similarity, Sim(1, 1)) THEN "Exact match"
    ELSE IF SimGeq(similarity, Sim(9, 10)) THEN "Very close match"
    ELSE IF SimGeq(similarity, Sim(7, 10)) THEN "Close match"
    ELSE "Similar value"

generateMigrationReason(similarity) ==
    IF SimEqual(similarity, Sim(1, 1)) THEN "Exact match"
    ELSE IF SimGreater(similarity, Sim(9, 10)) THEN "Very close match"
    ELSE IF SimGreater(similarity, Sim(7, 10)) THEN "Close match"
    ELSE "Similar value"

\* the test that admits a candidate: similarity > 0.5
PassesThreshold(similarity) == SimGreater(similarity, Sim(1, 2))

\* Array.prototype.sort is stable: x goes before the first element that the
\* comparator (a, b) => b.similarity - a.similarity ranks after it
RECURSIVE InsertBySimilarity(_, _)
InsertBySimilarity(x, sorted) ==
    IF sorted = <<>> THEN <<x>>
    ELSE IF SimGreater(x.similarity, Head(sorted).similarity) THEN <<x>> \o sorted
    ELSE <<Head(sorted)>> \o InsertBySimilarity(x, Tail(sorted))

RECURSIVE SortBySimilarityFrom(_, _, _)
SortBySimilarityFrom(s, i, acc) ==
    IF i > Len(s) THEN acc
    ELSE SortBySimilarityFrom(s, i + 1, InsertBySimilarity(s[i], acc))

SortBySimilarity(s) == SortBySimilarityFrom(s, 1, <<>>)

\* the whole sorted list, without the cut
TopFiveAll(s) == s

\* suggestions.slice(0, 5)
TopFive(s) == SubSeq(s, 1, Min2(5, Len(s)))

\* the body of the loop for one token whose type equals the query's
SuggestionsOf(token, similarity) ==
    IF PassesThreshold(similarity)
    THEN <<[tokenName |-> token.name,
            tokenValue |-> token.value,
            category |-> token.category,
            similarity |-> similarity,
            reason |-> generateMigrationReason(similarity)]>>
    ELSE <<>>

\* the loop without the test valueType === tokenType
RECURSIVE CollectSuggestionsAnyType(_, _, _, _)
CollectSuggestionsAnyType(oldValue, valueType, candidateTokens, i) ==
    IF i > Len(candidateTokens) THEN <<>>
    ELSE SuggestionsOf(candidateTokens[i],
            calculateSimilarity(oldValue, candidateTokens[i].value, valueType))
         \o CollectSuggestionsAnyType(oldValue, valueType, candidateTokens, i + 1)

\* the loop over candidateTokens: the suggestions pushed, in token order
RECURSIVE CollectSuggestions(_, _, _, _)
CollectSuggestions(oldValue, valueType, candidateTokens, i) ==
    IF i > Len(candidateTokens) THEN <<>>
    ELSE (IF detectValueType(candidateTokens[i].value) = valueType
          THEN SuggestionsOf(candidateTokens[i],
                    calculateSimilarity(oldValue, candidateTokens[i].value, valueType))
          ELSE <<>>)
         \o CollectSuggestions(oldValue, valueType, candidateTokens, i + 1)

\* the list cut to five before it is sorted
suggestTokenMigrationCutFirst(oldValue, tokens, category) ==
    [inputValue |-> oldValue,
     suggestedTokens |->
        SortBySimilarity(TopFive(
            CollectSuggestions(oldValue, detectValueType(oldValue),
                IF category # "" THEN SelectSeq(tokens, LAMBDA t : t.category = category)
                ELSE tokens,
                1)))]

\* category is "" when the optional argument is omitted
suggestTokenMigration(oldValue, tokens, category) ==
    [inputValue |-> oldValue,
     suggestedTokens |->
        TopFive(SortBySimilarity(
            CollectSuggestions(oldValue, detectValueType(oldValue),
                IF category # "" THEN SelectSeq(tokens, LAMBDA t : t.category = category)
                ELSE tokens,
                1)))]

(***************************************************************************)
(* Catalogs of the matching operations                                     *)
(***************************************************************************)
Token(name, value, category) == [name |-> name, value |-> value, category |-> category]

\* seven pixel tokens within a factor two of each other, two pairs of them
\* equal in value, a zero, and a rem token with the number of a pixel token
PixelUniverse ==
    << Token(<<"s", "p", "a", "c", "e", "-", "m", "d">>, <<"1", "6", "p", "x">>, "spacing"),
       Token(<<"s", "p", "a", "c", "e", "-", "s", "m">>, <<"1", "2", "p", "x">>, "spacing"),
       Token(<<"f", "o", "n", "t", "-", "s", "i", "z", "e", "-", "m", "d">>, <<"1", "6", "p", "x">>, "typography"),
       Token(<<"s", "p", "a", "c", "e", "-", "l", "g">>, <<"2", "4", "p", "x">>, "spacing"),
       Token(<<"s", "p", "a", "c", "e", "-", "x", "s">>, <<"1", "0", "p", "x">>, "spacing"),
       Token(<<"f", "o", "n", "t", "-", "s", "i", "z", "e", "-", "s", "m">>, <<"1", "4", "p", "x">>, "typography"),
       Token(<<"s", "p", "a", "c", "e", "-", "n", "o", "n", "e">>, <<"0", "p", "x">>, "spacing"),
       Token(<<"s", "p", "a", "c", "e", "-", "r", "e", "m">>, <<"1", "6", "r", "e", "m">>, "spacing"),
       Token(<<"f", "o", "n", "t", "-", "s", "i", "z", "e", "-", "x", "s">>, <<"1", "0", "p", "x">>, "typography") >>

\* colours that differ in case or in blanks only, font weights, a rem value
\* and a free string
MixedUniverse ==
    << Token(<<"c", "o", "l", "o", "r", "-", "p", "r", "i", "m", "a", "r", "y">>, <<"#", "0", "0", "6", "6", "C", "C">>, "color"),
       Token(<<"c", "o", "l", "o", "r", "-", "l", "i", "n", "k">>, <<"#", "0", "0", "6", "6", "c", "c">>, "color"),
       Token(<<"f", "o", "n", "t", "-", "w", "e", "i", "g", "h", "t", "-", "n", "o", "r", "m", "a", "l">>, <<"4", "0", "0">>, "typography"),
       Token(<<"f", "o", "n", "t", "-", "w", "e", "i", "g", "h", "t", "-", "b", "o", "l", "d">>, <<"7", "0", "0">>, "typography"),
       Token(<<"c", "o", "l", "o", "r", "-", "b", "l", "a", "c", "k">>, <<"r", "g", "b", "(", "0", ",", " ", "0", ",", " ", "0", ")">>, "color"),
       Token(<<"c", "o", "l", "o", "r", "-", "i", "n", "k">>, <<"r", "g", "b", "(", "0", ",", "0", ",", "0", ")">>, "color"),
       Token(<<"s", "p", "a", "c", "e", "-", "u", "n", "i", "t">>, <<"1", "r", "e", "m">>, "spacing") >>

Reverse(s) == [i \in 1..Len(s) |-> s[Len(s) + 1 - i]]

\* the elements of s at the positions in idx, in the order of s
RECURSIVE Pick(_, _, _)
Pick(s, idx, i) ==
    IF i > Len(s) THEN <<>>
    ELSE (IF i \in idx THEN <<s[i]>> ELSE <<>>) \o Pick(s, idx, i + 1)

\* catalogs hold at most MaxCatalogLen tokens
MaxCatalogLen == 6

SubCatalogs(universe) ==
    {Pick(universe, idx, 1) :
        idx \in {x \in SUBSET (1..Len(universe)) : Cardinality(x) <= MaxCatalogLen}}

MatchCatalogs ==
    SubCatalogs(PixelUniverse) \cup SubCatalogs(Reverse(PixelUniverse))
    \cup SubCatalogs(MixedUniverse) \cup SubCatalogs(Reverse(MixedUniverse))

QueryValues ==
    {PixelUniverse[i].value : i \in 1..Len(PixelUniverse)}
    \cup {MixedUniverse[i].value : i \in 1..Len(MixedUniverse)}
    \cup {<<"1", "8", "p", "x">>, <<"5", "0", "0">>, <<"2", "r", "e", "m">>, <<"b", "o", "l", "d">>}
    \cup {<<"1", "5", "p", "x">>, <<"9", "p", "x">>, <<"7", "p", "x">>}

CategoryFilters == {"", "spacing", "typography", "color"}

(***************************************************************************)
(* SpecMatch: exact match and migration suggestion over a catalog          *)
(***************************************************************************)
InitMatch ==
    /\ catalog \in MatchCatalogs
    /\ op = "init"
    /\ args = NoResult
    /\ result = NoResult

FindMatchingTokenCall(values) ==
    \E value \in values :
        /\ op' = "findMatchingToken"
        /\ args' = [value |-> value]
        /\ result' = findMatchingToken(value, catalog)
        /\ catalog' = TokensAfterFindMatchingToken(catalog)

SuggestTokenMigrationCall(values, categories) ==
    \E value \in values, category \in categories :
        /\ op' = "suggestTokenMigration"
        /\ args' = [value |-> value, category |-> category]
        /\ result' = suggestTokenMigration(value, catalog, category)
        /\ catalog' = TokensAfterSuggestTokenMigration(catalog)

\* the operations are pure: one call on each catalog shows every result
NextMatch ==
    \/ op = "init" /\ FindMatchingTokenCall(QueryValues)
    \/ op = "init" /\ SuggestTokenMigrationCall(QueryValues, CategoryFilters)

SpecMatch == InitMatch /\ [][NextMatch]_vars

\* C2: suggestTokenMigration returns at most 5 suggestions, each with
\* similarity >= 0.5, in non-increasing order of similarity.
C2_MigrationBounded ==
    op = "suggestTokenMigration" =>
        LET s == result.suggestedTokens
        IN  /\ Len(s) <= 5
            /\ \A i \in 1..Len(s) : SimGeq(s[i].similarity, Sim(1, 2))
            /\ \A i \in 1..Len(s) : \A j \in i..Len(s) :
                    SimGeq(s[i].similarity, s[j].similarity)

\* more than five tokens of the catalog are within the threshold of the query,
\* five are returned and they differ in similarity
C2_Witness ==
    /\ op = "suggestTokenMigration"
    /\ Len(result.suggestedTokens) = 5
    /\ Cardinality({i \in 1..Len(catalog) :
            /\ detectValueType(catalog[i].value) = "pixels"
            /\ 2 * parseIntDec(catalog[i].value) > parseIntDec(args.value)
            /\ 2 * parseIntDec(args.value) > parseIntDec(catalog[i].value)}) > 5
    /\ args.category = ""
    /\ SimGreater(result.suggestedTokens[1].similarity, result.suggestedTokens[5].similarity)

\* C3 (as claimed): findMatchingToken called with the stored value of a token
\* T of the catalog returns the name of T itself, also when several tokens
\* share that value after normalization.
C3_ReturnsThatToken ==
    op = "findMatchingToken" =>
        \A i \in 1..Len(catalog) :
            catalog[i].value = args.value => result = catalog[i].name

\* C3 (amended): findMatchingToken called with the stored value of a token T
\* returns the name of the first token, in catalog order, whose value equals
\* T's value after lower-casing and removal of white space; that is T itself
\* when no earlier token shares the normalized value.
C3_ReturnsFirstWithThatValue ==
    op = "findMatchingToken" =>
        \A i \in 1..Len(catalog) :
            catalog[i].value = args.value =>
                \E j \in 1..i :
                    /\ result = catalog[j].name
                    /\ normalizeValue(catalog[j].value) = normalizeValue(catalog[i].value)
                    /\ \A k \in 1..(j - 1) :
                        normalizeValue(catalog[k].value) # normalizeValue(catalog[i].value)

\* the query is the stored value of a token that comes after another token
\* with a different spelling of the same value, whose name is returned
C3_Witness ==
    /\ op = "findMatchingToken"
    /\ \E i \in 1..Len(catalog) : \E j \in (i + 1)..Len(catalog) :
        /\ catalog[j].value = args.value
        /\ catalog[i].value # catalog[j].value
        /\ normalizeValue(catalog[i].value) = normalizeValue(catalog[j].value)
        /\ result = catalog[i].name
        /\ \A k \in 1..(i - 1) :
            normalizeValue(catalog[k].value) # normalizeValue(args.value)

\* the positions of the tokens whose stored value is the given string
StoringValue(tokens, value) == {i \in 1..Len(tokens) : tokens[i].value = value}

\* C13 (as claimed): for a query of pixel, rem or em type, a zero magnitude
\* included, on a catalog where at most five tokens store the query's value,
\* suggestTokenMigration without category filter returns every token whose
\* stored value is identical to the query, with similarity 1 and reason
\* 'Exact match', whatever the token's category.
C13_ExactMatchesReturned ==
    (/\ op = "suggestTokenMigration"
     /\ args.category = ""
     /\ detectValueType(args.value) \in {"pixels", "rem", "em"}
     /\ Cardinality(StoringValue(catalog, args.value)) <= 5)
    =>  \A i \in StoringValue(catalog, args.value) :
            \E k \in 1..Len(result.suggestedTokens) :
                /\ result.suggestedTokens[k].tokenName = catalog[i].name
                /\ result.suggestedTokens[k].tokenValue = catalog[i].value
                /\ result.suggestedTokens[k].category = catalog[i].category
                /\ SimEqual(result.suggestedTokens[k].similarity, Sim(1, 1))
                /\ result.suggestedTokens[k].reason = "Exact match"

\* the positions of the candidates of font-weight type
FontWeightCandidates(tokens, category) ==
    {i \in 1..Len(tokens) :
        /\ category = "" \/ tokens[i].category = category
        /\ detectValueType(tokens[i].value) = "font-weight"}

\* C19 (as claimed): only candidates with similarity strictly below 0.5 are
\* discarded: for a query of font-weight type, every candidate of font-weight
\* type with a different weight is suggested with similarity 0.5 and reason
\* 'Similar value' (the catalog holding at most five such candidates).
C19_HalfSimilarityKept ==
    (/\ op = "suggestTokenMigration"
     /\ detectValueType(args.value) = "font-weight"
     /\ Cardinality(FontWeightCandidates(catalog, args.category)) <= 5)
    =>  \A i \in FontWeightCandidates(catalog, args.category) :
            parseIntDec(catalog[i].value) # parseIntDec(args.value) =>
                \E k \in 1..Len(result.suggestedTokens) :
                    /\ result.suggestedTokens[k].tokenName = catalog[i].name
                    /\ SimEqual(result.suggestedTokens[k].similarity, Sim(1, 2))
                    /\ result.suggestedTokens[k].reason = "Similar value"

\* the reason that goes with a similarity
ReasonFits(similarity, reason) ==
    /\ SimEqual(similarity, Sim(1, 1)) => reason = "Exact match"
    /\ (SimGreater(similarity, Sim(9, 10)) /\ SimGreater(Sim(1, 1), similarity))
        => reason = "Very close match"
    /\ (SimGreater(similarity, Sim(7, 10)) /\ SimGeq(Sim(9, 10), similarity))
        => reason = "Close match"
    /\ SimGeq(Sim(7, 10), similarity) => reason = "Similar value"
    /\ reason \in {"Exact match", "Very close match", "Close match", "Similar value"}

\* C22: the reason of every migration suggestion follows from its similarity
\* alone: exactly 1 gives 'Exact match', above 0.9 and below 1 'Very close
\* match', above 0.7 up to 0.9 'Close match', any other returned similarity
\* 'Similar value'.
C22_ReasonFromSimilarity ==
    op = "suggestTokenMigration" =>
        \A k \in 1..Len(result.suggestedTokens) :
            ReasonFits(result.suggestedTokens[k].similarity,
                       result.suggestedTokens[k].reason)

\* one answer with the three reasons of an inexact match
C22_Witness ==
    /\ op = "suggestTokenMigration"
    /\ {result.suggestedTokens[k].reason : k \in 1..Len(result.suggestedTokens)}
        = {"Very close match", "Close match", "Similar value"}

\* an answer with an exact and an inexact match
C22_WitnessExact ==
    /\ op = "suggestTokenMigration"
    /\ {"Exact match", "Close match"}
        \subseteq {result.suggestedTokens[k].reason : k \in 1..Len(result.suggestedTokens)}

\* a similarity of exactly 0.9 is a 'Close match'
C22_WitnessBoundary ==
    /\ op = "suggestTokenMigration"
    /\ \E k \in 1..Len(result.suggestedTokens) :
        /\ SimEqual(result.suggestedTokens[k].similarity, Sim(9, 10))
        /\ result.suggestedTokens[k].reason = "Close match"

\* the suggestion is a token of the catalog
IsCatalogToken(suggestion, tokens) ==
    \E i \in 1..Len(tokens) :
        /\ tokens[i].name = suggestion.tokenName
        /\ tokens[i].value = suggestion.tokenValue
        /\ tokens[i].category = suggestion.category

\* C23: every token suggestTokenMigration returns has the detected value
\* type of the query and, under a category filter, exactly that category; a
\* pixel query yields no rem, em or unitless token, however close the numbers.
C23_SameTypeAndCategory ==
    op = "suggestTokenMigration" =>
        \A k \in 1..Len(result.suggestedTokens) :
            /\ IsCatalogToken(result.suggestedTokens[k], catalog)
            /\ detectValueType(result.suggestedTokens[k].tokenValue)
                = detectValueType(args.value)
            /\ args.category # "" => result.suggestedTokens[k].category = args.category
            /\ endsWith(args.value, <<"p", "x">>) => endsWith(result.suggestedTokens[k].tokenValue, <<"p", "x">>)

\* a pixel query under a category filter on a catalog that holds a rem token
\* of the same number and category and a pixel token of another category
C23_Witness ==
    /\ op = "suggestTokenMigration"
    /\ args.value = <<"1", "6", "p", "x">>
    /\ args.category = "spacing"
    /\ \E i \in 1..Len(catalog) : catalog[i].value = <<"1", "6", "r", "e", "m">> /\ catalog[i].category = "spacing"
    /\ \E i \in 1..Len(catalog) : catalog[i].value = <<"1", "6", "p", "x">> /\ catalog[i].category = "typography"
    /\ Len(result.suggestedTokens) >= 2

(***************************************************************************)
(* The suggestions kept are the best ones                                  *)
(***************************************************************************)
\* the similarity of the query to the token at a position of the catalog
SimilarityAt(i) ==
    calculateSimilarity(args.value, catalog[i].value, detectValueType(args.value))

\* the positions of the catalog whose token passes the category filter, has
\* the detected type of the query and a similarity above 0.5
PassingCandidates ==
    {i \in 1..Len(catalog) :
        /\ args.category = "" \/ catalog[i].category = args.category
        /\ detectValueType(catalog[i].value) = detectValueType(args.value)
        /\ SimGreater(SimilarityAt(i), Sim(1, 2))}

\* the position of a suggested token in the catalog (names are unique)
PositionOf(suggestion) ==
    CHOOSE i \in 1..Len(catalog) : catalog[i].name = suggestion.tokenName

ReturnedPositions ==
    {PositionOf(result.suggestedTokens[k]) : k \in 1..Len(result.suggestedTokens)}

\* C30: the suggestions returned by suggestTokenMigration are the best ones:
\* they are min(5, number of passing candidates) distinct passing candidates,
\* no passing candidate left out has a similarity strictly greater than a
\* returned one's, and among candidates of equal similarity the ones earlier
\* in the catalog are kept, and listed, first.
C30_BestSuggestionsKept ==
    op = "suggestTokenMigration" =>
        /\ ReturnedPositions \subseteq PassingCandidates
        /\ Cardinality(ReturnedPositions) = Len(result.suggestedTokens)
        /\ Len(result.suggestedTokens) = Min2(5, Cardinality(PassingCandidates))
        /\ \A i \in PassingCandidates \ ReturnedPositions :
            \A k \in 1..Len(result.suggestedTokens) :
                /\ ~SimGreater(SimilarityAt(i), result.suggestedTokens[k].similarity)
                /\ SimEqual(SimilarityAt(i), result.suggestedTokens[k].similarity)
                    => PositionOf(result.suggestedTokens[k]) < i
        /\ \A k \in 1..Len(result.suggestedTokens) :
            \A l \in (k + 1)..Len(result.suggestedTokens) :
                SimEqual(result.suggestedTokens[k].similarity,
                         result.suggestedTokens[l].similarity)
                    => PositionOf(result.suggestedTokens[k])
                        < PositionOf(result.suggestedTokens[l])

\* six candidates pass and the one left out stands in the catalog before a
\* returned one of lower similarity
C30_Witness ==
    /\ op = "suggestTokenMigration"
    /\ Cardinality(PassingCandidates) = 6
    /\ Len(result.suggestedTokens) = 5
    /\ \E i \in PassingCandidates \ ReturnedPositions :
        /\ i < 6
        /\ \A k \in 1..5 :
            SimGreater(result.suggestedTokens[k].similarity, SimilarityAt(i))

\* the candidate left out has the similarity of the last one returned and
\* stands behind it in the catalog
C30_WitnessTie ==
    /\ op = "suggestTokenMigration"
    /\ Len(result.suggestedTokens) = 5
    /\ \E i \in PassingCandidates \ ReturnedPositions :
        /\ SimEqual(SimilarityAt(i), result.suggestedTokens[5].similarity)
        /\ PositionOf(result.suggestedTokens[5]) < i

(***************************************************************************)
(* Colour parsing, luminance and contrast (utils/color.ts)                 *)
(***************************************************************************)
\* null where the code returns null instead of an object
NullValue == [null |-> TRUE]

\* hex.split('').map(char => char + char).join('')
RECURSIVE DoubleChars(_)
DoubleChars(s) == IF s = <<>> THEN <<>> ELSE <<Head(s), Head(s)>> \o DoubleChars(Tail(s))

RgbOrNull(r, g, b) ==
    IF r = NaN \/ g = NaN \/ b = NaN THEN NullValue ELSE [r |-> r, g |-> g, b |-> b]

\* hex is the input without its leading '#', 3 digits already doubled
RgbOfSixDigits(hex) ==
    IF Len(hex) # 6 THEN NullValue
    ELSE RgbOrNull(parseIntHex(substring(hex, 0, 2)),
                   parseIntHex(substring(hex, 2, 4)),
                   parseIntHex(substring(hex, 4, 6)))

\* hex.replace(/^#/, '')
StripLeadingHash(hex) == IF hex # <<>> /\ Head(hex) = "#" THEN Tail(hex) ELSE hex

ExpandShortHex(hex) == IF Len(hex) = 3 THEN DoubleChars(hex) ELSE hex

hexToRgb(hex) == RgbOfSixDigits(ExpandShortHex(StripLeadingHash(hex)))

\* number of characters of s from position p (1-based) on that satisfy \s
RECURSIVE SpaceRun(_, _)
SpaceRun(s, p) == IF p <= Len(s) /\ IsSpace(s[p]) THEN 1 + SpaceRun(s, p + 1) ELSE 0

\* number of decimal digits of s from position p (1-based) on
RECURSIVE DigitRun(_, _)
DigitRun(s, p) == IF p <= Len(s) /\ IsDigit(s[p]) THEN 1 + DigitRun(s, p + 1) ELSE 0

CharAt(s, p) == IF p >= 1 /\ p <= Len(s) THEN s[p] ELSE ""

\* /rgba?\((\d+),\s*(\d+),\s*(\d+)/ is matched in steps; every step returns
\* the three captured groups or NullValue.  Third group: \d+ from p3 on.
RgbThird(s, p1, n1, p2, n2, p3, n3) ==
    IF n3 > 0
    THEN [r |-> DecValue(SubSeq(s, p1, p1 + n1 - 1)),
          g |-> DecValue(SubSeq(s, p2, p2 + n2 - 1)),
          b |-> DecValue(SubSeq(s, p3, p3 + n3 - 1))]
    ELSE NullValue

\* after the second group: a comma, then \s*
RgbSecondEnd(s, p1, n1, p2, n2, blanks) ==
    IF n2 > 0 /\ CharAt(s, p2 + n2) = ","
    THEN RgbThird(s, p1, n1, p2, n2, p2 + n2 + 1 + blanks,
                  DigitRun(s, p2 + n2 + 1 + blanks))
    ELSE NullValue

RgbSecond(s, p1, n1, p2) ==
    RgbSecondEnd(s, p1, n1, p2, DigitRun(s, p2), SpaceRun(s, p2 + DigitRun(s, p2) + 1))

\* after the first group: a comma, then \s*
RgbFirstEnd(s, p1, n1) ==
    IF n1 > 0 /\ CharAt(s, p1 + n1) = ","
    THEN RgbSecond(s, p1, n1, p1 + n1 + 1 + SpaceRun(s, p1 + n1 + 1))
    ELSE NullValue

\* q is the position after "rgb" and the optional "a"
RgbOpen(s, q) ==
    IF CharAt(s, q) = "(" THEN RgbFirstEnd(s, q + 1, DigitRun(s, q + 1)) ELSE NullValue

RgbMatchAt(s, p) ==
    IF p + 2 <= Len(s) /\ SubSeq(s, p, p + 2) = <<"r", "g", "b">>
    THEN RgbOpen(s, IF CharAt(s, p + 3) = "a" THEN p + 4 ELSE p + 3)
    ELSE NullValue

\* String.prototype.match without the g flag: the leftmost match
RECURSIVE RgbMatchFrom(_, _)
RgbMatchFrom(s, p) ==
    IF p > Len(s) THEN NullValue
    ELSE IF RgbMatchAt(s, p) # NullValue THEN RgbMatchAt(s, p)
    ELSE RgbMatchFrom(s, p + 1)

rgbStringToRgb(rgbString) == RgbMatchFrom(rgbString, 1)

ParseTrimmed(trimmed) ==
    IF startsWith(trimmed, <<"#">>) THEN hexToRgb(trimmed)
    ELSE IF startsWith(trimmed, <<"r", "g", "b">>) THEN rgbStringToRgb(trimmed)
    ELSE NullValue

parseColor(color) == ParseTrimmed(trim(color))

\* c <= 0.03928 ? c / 12.92 : Math.pow((c + 0.055) / 1.055, 2.4) for c = n / 255,
\* n = 0..255, in units of 1/100000 (entry n + 1 is the value for channel n)
LinearChannel ==
    <<
       0, 30, 61, 91, 121, 152, 182, 212, 243, 273, 304, 335,
       368, 402, 439, 478, 518, 561, 605, 651, 700, 750, 802, 857,
       913, 972, 1033, 1096, 1161, 1229, 1298, 1370, 1444, 1521, 1600, 1681,
       1764, 1850, 1938, 2029, 2122, 2217, 2315, 2416, 2519, 2624, 2732, 2843,
       2956, 3071, 3190, 3310, 3434, 3560, 3689, 3820, 3955, 4092, 4231, 4374,
       4519, 4667, 4817, 4971, 5127, 5286, 5448, 5613, 5781, 5951, 6125, 6301,
       6480, 6663, 6848, 7036, 7227, 7421, 7619, 7819, 8022, 8228, 8438, 8650,
       8866, 9084, 9306, 9531, 9759, 9990, 10224, 10462, 10702, 10946, 11193, 11444,
       11697, 11954, 12214, 12477, 12744, 13014, 13287, 13563, 13843, 14126, 14413, 14703,
       14996, 15293, 15593, 15896, 16203, 16513, 16827, 17144, 17465, 17789, 18116, 18447,
       18782, 19120, 19462, 19807, 20156, 20508, 20864, 21223, 21586, 21953, 22323, 22697,
       23074, 23455, 23840, 24228, 24620, 25016, 25415, 25818, 26225, 26636, 27050, 27468,
       27889, 28315, 28744, 29177, 29614, 30054, 30499, 30947, 31399, 31855, 32314, 32778,
       33245, 33716, 34191, 34670, 35153, 35640, 36131, 36625, 37124, 37626, 38133, 38643,
       39157, 39676, 40198, 40724, 41254, 41789, 42327, 42869, 43415, 43966, 44520, 45079,
       45641, 46208, 46778, 47353, 47932, 48515, 49102, 49693, 50289, 50888, 51492, 52100,
       52712, 53328, 53948, 54572, 55201, 55834, 56471, 57112, 57758, 58408, 59062, 59720,
       60383, 61050, 61721, 62396, 63076, 63760, 64448, 65141, 65837, 66539, 67244, 67954,
       68669, 69387, 70110, 70838, 71569, 72306, 73046, 73791, 74540, 75294, 76052, 76815,
       77582, 78354, 79130, 79910, 80695, 81485, 82279, 83077, 83880, 84687, 85499, 86316,
       87137, 87962, 88792, 89627, 90466, 91310, 92158, 93011, 93869, 94731, 95597, 96469,
       97345, 98225, 99110, 100000
    >>

\* 0.2126 * r + 0.7152 * g + 0.0722 * b in units of 1/1000000
getRelativeLuminance(rgb) ==
    (2126 * LinearChannel[rgb.r + 1] + 7152 * LinearChannel[rgb.g + 1]
        + 722 * LinearChannel[rgb.b + 1]) \div 1000

\* the ratio with the two luminances taken in the order given
RatioInOrderGiven(l1, l2) == [num |-> l1 + 50000, den |-> l2 + 50000]

\* (lighter + 0.05) / (darker + 0.05) as the quotient num/den
RatioOfLuminances(l1, l2) ==
    [num |-> Max2(l1, l2) + 50000, den |-> Min2(l1, l2) + 50000]

RatioOfRgb(rgb1, rgb2) ==
    IF rgb1 = NullValue \/ rgb2 = NullValue THEN NullValue
    ELSE RatioOfLuminances(getRelativeLuminance(rgb1), getRelativeLuminance(rgb2))

getContrastRatio(color1, color2) == RatioOfRgb(parseColor(color1), parseColor(color2))

\* the result object for the flags; the reported ratio,
\* Math.round(ratio * 100) / 100, is kept in hundredths
ContrastResult(ratio, wcagAA, wcagAAA) ==
    [ratio |-> RoundDiv(100 * ratio.num, ratio.den),
     wcagAA |-> wcagAA,
     wcagAAA |-> wcagAAA,
     score |-> IF wcagAAA THEN "AAA" ELSE IF wcagAA THEN "AA" ELSE "fail"]

\* the flags decided on the ratio as reported, rounded to two decimals
ClassifyRounded(ratio) ==
    IF ratio = NullValue THEN NullValue
    ELSE ContrastResult(ratio, RoundDiv(100 * ratio.num, ratio.den) >= 450,
                        RoundDiv(100 * ratio.num, ratio.den) >= 700)

\* wcagAA = ratio >= 4.5 and wcagAAA = ratio >= 7, on the unrounded ratio
ClassifyRatio(ratio) ==
    IF ratio = NullValue THEN NullValue
    ELSE ContrastResult(ratio, 2 * ratio.num >= 9 * ratio.den, ratio.num >= 7 * ratio.den)

\* the large-text thresholds 3 and 4.5 in place of 4.5 and 7
ClassifyRatioLargeText(ratio) ==
    IF ratio = NullValue THEN NullValue
    ELSE ContrastResult(ratio, ratio.num >= 3 * ratio.den, 2 * ratio.num >= 9 * ratio.den)

checkContrastLargeText(foreground, background) ==
    ClassifyRatioLargeText(getContrastRatio(foreground, background))

checkContrast(foreground, background) ==
    ClassifyRatio(getContrastRatio(foreground, background))

(***************************************************************************)
(* Contrast evaluation (tools/accessibility.ts)                            *)
(***************************************************************************)
\* tokens.find(t => t.name === name): the first token of that name, or NullValue
RECURSIVE FindByName(_, _, _)
FindByName(tokens, name, i) ==
    IF i > Len(tokens) THEN NullValue
    ELSE IF tokens[i].name = name THEN tokens[i]
    ELSE FindByName(tokens, name, i + 1)

TokenNotFound == <<"T", "o", "k", "e", "n", " ", "n", "o", "t", " ", "f", "o", "u", "n", "d">>

UnableToCalculate == <<"U", "n", "a", "b", "l", "e", " ", "t", "o", " ", "c", "a", "l", "c", "u", "l", "a", "t", "e", " ", "c", "o", "n", "t", "r", "a", "s", "t", " ", "(", "n", "o", "n", "-", "c", "o", "l", "o", "r", " ", "t", "o", "k", "e", "n", "s", "?", ")">>

NoAlternative == <<"N", "o", " ", "a", "l", "t", "e", "r", "n", "a", "t", "i", "v", "e", " ", "t", "o", "k", "e", "n", "s", " ", "f", "o", "u", "n", "d", " ", "w", "i", "t", "h", " ", "s", "u", "f", "f", "i", "c", "i", "e", "n", "t", " ", "c", "o", "n", "t", "r", "a", "s", "t">>

\* `Try using ${token.name} (${token.value}) for better contrast`
TryUsing(token) ==
    <<"T", "r", "y", " ", "u", "s", "i", "n", "g", " ">> \o token.name \o <<" ", "(">> \o token.value \o <<")", " ", "f", "o", "r", " ", "b", "e", "t", "t", "e", "r", " ", "c", "o", "n", "t", "r", "a", "s", "t">>

\* contrast && contrast.wcagAA
IsSufficient(contrast) == contrast # NullValue /\ contrast.wcagAA

\* the loop of findBetterTokenCombination over the colour tokens
RECURSIVE FirstSufficient(_, _, _)
FirstSufficient(colorTokens, backgroundValue, i) ==
    IF i > Len(colorTokens) THEN NoAlternative
    ELSE IF IsSufficient(checkContrast(colorTokens[i].value, backgroundValue))
        THEN TryUsing(colorTokens[i])
    ELSE FirstSufficient(colorTokens, backgroundValue, i + 1)

\* the scan runs over all tokens, not over the colour tokens
findBetterTokenCombinationAny(currentToken, allTokens, backgroundValue) ==
    FirstSufficient(allTokens, backgroundValue, 1)

findBetterTokenCombination(currentToken, allTokens, backgroundValue) ==
    FirstSufficient(SelectSeq(allTokens, LAMBDA t : t.category = "color"),
                    backgroundValue, 1)

\* what a call yields when it throws instead of returning
Thrown == [thrown |-> "TypeError"]

ContrastCheckResult(fgName, bgName, fgValue, bgValue, contrast, passes, recommendation) ==
    [foregroundToken |-> fgName,
     backgroundToken |-> bgName,
     foregroundValue |-> fgValue,
     backgroundValue |-> bgValue,
     contrast |-> contrast,
     passes |-> passes,
     recommendation |-> recommendation]

\* an alternative is looked for whether or not the pair passes
ResultOfContrastAlwaysRecommending(fgToken, bgToken, tokens, contrast) ==
    IF contrast = NullValue
    THEN ContrastCheckResult(fgToken.name, bgToken.name, fgToken.value, bgToken.value,
                             NullValue, FALSE, UnableToCalculate)
    ELSE ContrastCheckResult(fgToken.name, bgToken.name, fgToken.value, bgToken.value,
            contrast, contrast.wcagAA,
            findBetterTokenCombination(fgToken, tokens, bgToken.value))

\* checkTokenContrast from the computed contrast on
ResultOfContrast(fgToken, bgToken, tokens, contrast) ==
    IF contrast = NullValue
    THEN ContrastCheckResult(fgToken.name, bgToken.name, fgToken.value, bgToken.value,
                             NullValue, FALSE, UnableToCalculate)
    ELSE ContrastCheckResult(fgToken.name, bgToken.name, fgToken.value, bgToken.value,
            contrast, contrast.wcagAA,
            IF ~contrast.wcagAA
            THEN findBetterTokenCombination(fgToken, tokens, bgToken.value)
            ELSE <<>>)

\* checkTokenContrast from the two lookups on
ResultOfLookup(foregroundToken, backgroundToken, tokens, fgToken, bgToken) ==
    IF fgToken = NullValue \/ bgToken = NullValue
    THEN ContrastCheckResult(foregroundToken, backgroundToken, <<>>, <<>>,
                             NullValue, FALSE, TokenNotFound)
    ELSE ResultOfContrast(fgToken, bgToken, tokens,
                          checkContrast(fgToken.value, bgToken.value))

\* the guard reads !fgToken && !bgToken: with one token missing, reading the
\* value of the missing one throws
ResultOfLookupBothMissing(foregroundToken, backgroundToken, tokens, fgToken, bgToken) ==
    IF fgToken = NullValue /\ bgToken = NullValue
    THEN ContrastCheckResult(foregroundToken, backgroundToken, <<>>, <<>>,
                             NullValue, FALSE, TokenNotFound)
    ELSE IF fgToken = NullValue \/ bgToken = NullValue THEN Thrown
    ELSE ResultOfContrast(fgToken, bgToken, tokens,
                          checkContrast(fgToken.value, bgToken.value))

checkTokenContrastBothMissing(foregroundToken, backgroundToken, tokens) ==
    ResultOfLookupBothMissing(foregroundToken, backgroundToken, tokens,
        FindByName(tokens, foregroundToken, 1), FindByName(tokens, backgroundToken, 1))

checkTokenContrast(foregroundToken, backgroundToken, tokens) ==
    ResultOfLookup(foregroundToken, backgroundToken, tokens,
        FindByName(tokens, foregroundToken, 1), FindByName(tokens, backgroundToken, 1))

\* the comparator of checkAllCombinations: 0 when either result has no
\* contrast, else b.contrast.ratio - a.contrast.ratio (in hundredths)
CompareByRatio(a, b) ==
    IF a.contrast = NullValue \/ b.contrast = NullValue THEN 0
    ELSE b.contrast.ratio - a.contrast.ratio

\* Array.prototype.sort as Node's engine runs it on fewer than 64 elements:
\* the initial run is counted (and reversed when strictly descending), then
\* the remaining elements are placed by binary insertion.
RECURSIVE RunLengthFrom(_, _, _)
RunLengthFrom(a, isDescending, idx) ==
    IF idx > Len(a) THEN idx - 1
    ELSE IF (isDescending /\ CompareByRatio(a[idx], a[idx - 1]) >= 0)
            \/ (~isDescending /\ CompareByRatio(a[idx], a[idx - 1]) < 0)
        THEN idx - 1
    ELSE RunLengthFrom(a, isDescending, idx + 1)

\* left and right are 0-based; mid = left + ((right - left) >> 1)
RECURSIVE BinarySearchLeft(_, _, _, _)
BinarySearchLeft(a, pivot, left, right) ==
    IF left >= right THEN left
    ELSE IF CompareByRatio(pivot, a[left + ((right - left) \div 2) + 1]) < 0
        THEN BinarySearchLeft(a, pivot, left, left + ((right - left) \div 2))
    ELSE BinarySearchLeft(a, pivot, left + ((right - left) \div 2) + 1, right)

\* a with the element at 0-based index start moved to 0-based index left
MoveTo(a, start, left) ==
    SubSeq(a, 1, left) \o <<a[start + 1]>> \o SubSeq(a, left + 1, start)
        \o SubSeq(a, start + 2, Len(a))

\* start is the 0-based index of the next element to place
RECURSIVE BinaryInsertionSort(_, _)
BinaryInsertionSort(a, start) ==
    IF start >= Len(a) THEN a
    ELSE BinaryInsertionSort(
            MoveTo(a, start, BinarySearchLeft(a, a[start + 1], 0, start)), start + 1)

MakeRun(a, isDescending, runLength) ==
    IF isDescending
    THEN Reverse(SubSeq(a, 1, runLength)) \o SubSeq(a, runLength + 1, Len(a))
    ELSE a

SortRun(a, isDescending, runLength) ==
    BinaryInsertionSort(MakeRun(a, isDescending, runLength), runLength)

SortFromOrder(a, isDescending) == SortRun(a, isDescending, RunLengthFrom(a, isDescending, 3))

SortByRatio(a) ==
    IF Len(a) < 2 THEN a ELSE SortFromOrder(a, CompareByRatio(a[2], a[1]) < 0)

ResultsFor(colorTokens, backgroundToken, tokens) ==
    [i \in 1..Len(colorTokens) |->
        checkTokenContrast(colorTokens[i].name, backgroundToken, tokens)]

checkAllCombinations(backgroundToken, tokens) ==
    IF FindByName(tokens, backgroundToken, 1) = NullValue THEN <<>>
    ELSE SortByRatio(ResultsFor(
            SelectSeq(tokens, LAMBDA t : t.category = "color" /\ t.name # backgroundToken),
            backgroundToken, tokens))

(***************************************************************************)
(* Catalogs of the contrast operations                                     *)
(***************************************************************************)
\* colour tokens that fail, just pass and amply pass AA on white, a colour
\* token whose value is an HSL component, a token of another category whose
\* value is a colour, and a colour token whose value ends in a letter that
\* is no hexadecimal digit
ContrastUniverse ==
    << Token(<<"c", "o", "l", "o", "r", "-", "m", "u", "t", "e", "d">>, <<"#", "7", "7", "7", "7", "7", "7">>, "color"),
       Token(<<"c", "o", "l", "o", "r", "-", "h", "u", "e">>, <<"2", "1", "6">>, "color"),
       Token(<<"b", "o", "r", "d", "e", "r", "-", "s", "t", "r", "o", "n", "g">>, <<"#", "5", "9", "5", "9", "5", "9">>, "border"),
       Token(<<"c", "o", "l", "o", "r", "-", "t", "e", "x", "t", "-", "s", "e", "c", "o", "n", "d", "a", "r", "y">>, <<"#", "7", "6", "7", "6", "7", "6">>, "color"),
       Token(<<"c", "o", "l", "o", "r", "-", "b", "a", "c", "k", "g", "r", "o", "u", "n", "d">>, <<"#", "F", "F", "F", "F", "F", "F">>, "color"),
       Token(<<"c", "o", "l", "o", "r", "-", "a", "c", "c", "e", "n", "t">>, <<"r", "g", "b", "(", "0", ",", " ", "1", "0", "2", ",", " ", "2", "0", "4", ")">>, "color"),
       Token(<<"c", "o", "l", "o", "r", "-", "t", "e", "x", "t", "-", "p", "r", "i", "m", "a", "r", "y">>, <<"#", "2", "1", "2", "5", "2", "9">>, "color"),
       Token(<<"c", "o", "l", "o", "r", "-", "t", "y", "p", "o">>, <<"#", "1", "2", "3", "4", "5", "G">>, "color") >>

ContrastCatalogs ==
    SubCatalogs(ContrastUniverse) \cup SubCatalogs(Reverse(ContrastUniverse))

\* the names of the universe and one name no catalog holds
ContrastNames ==
    {ContrastUniverse[i].name : i \in 1..Len(ContrastUniverse)} \cup {<<"c", "o", "l", "o", "r", "-", "m", "i", "s", "s", "i", "n", "g">>}

(***************************************************************************)
(* SpecContrast: contrast checks over a catalog                            *)
(***************************************************************************)
InitContrast ==
    /\ catalog \in ContrastCatalogs
    /\ op = "init"
    /\ args = NoResult
    /\ result = NoResult

CheckTokenContrastCall(names) ==
    \E fg \in names, bg \in names :
        /\ op' = "checkTokenContrast"
        /\ args' = [foregroundToken |-> fg, backgroundToken |-> bg]
        /\ result' = checkTokenContrast(fg, bg, catalog)
        /\ catalog' = TokensAfterCheckTokenContrast(catalog)

CheckAllCombinationsCall(names) ==
    \E bg \in names :
        /\ op' = "checkAllCombinations"
        /\ args' = [backgroundToken |-> bg]
        /\ result' = checkAllCombinations(bg, catalog)
        /\ catalog' = TokensAfterCheckAllCombinations(catalog)

\* the operations are pure: one call on each catalog shows every result
NextContrast ==
    \/ op = "init" /\ CheckTokenContrastCall(ContrastNames)
    \/ op = "init" /\ CheckAllCombinationsCall(ContrastNames)

SpecContrast == InitContrast /\ [][NextContrast]_vars

HasToken(tokens, name) == \E i \in 1..Len(tokens) : tokens[i].name = name

\* '#' followed by exactly 3 or exactly 6 hexadecimal digits
IsHexColour(v) ==
    /\ Len(v) \in {4, 7}
    /\ v[1] = "#"
    /\ \A i \in 2..Len(v) : IsHexDigit(v[i])

\* rgb( or rgba( followed by three numbers separated by commas
IsRgbColour(v) ==
    \E a \in 1..Len(v), b \in 1..Len(v), c \in 1..Len(v) :
        /\ a < b /\ b < c
        /\ SubSeq(v, 1, a) \in {<<"r", "g", "b", "(">>, <<"r", "g", "b", "a", "(">>}
        /\ v[b] = "," /\ AllDigits(SubSeq(v, a + 1, b - 1)) /\ a + 1 < b
        /\ v[c] = "," /\ AllDigits(trim(SubSeq(v, b + 1, c - 1))) /\ b + 1 < c
        /\ \E d \in c + 1..Len(v) :
                /\ trim(SubSeq(v, c + 1, d)) # <<>>
                /\ AllDigits(trim(SubSeq(v, c + 1, d)))

\* neither a '#'-hex colour nor an rgb()/rgba() colour, white space around
\* the value set aside
IsNoColour(v) == ~IsHexColour(trim(v)) /\ ~IsRgbColour(trim(v))

C9_NonColourValueReported ==
    op = "checkTokenContrast" =>
        \A i \in 1..Len(catalog) : \A j \in 1..Len(catalog) :
            (/\ catalog[i].name = args.foregroundToken
             /\ catalog[j].name = args.backgroundToken
             /\ IsNoColour(catalog[i].value) \/ IsNoColour(catalog[j].value))
            =>  /\ result # Thrown
                /\ result.contrast = NullValue
                /\ result.passes = FALSE
                /\ result.foregroundValue = catalog[i].value
                /\ result.backgroundValue = catalog[j].value
                /\ result.recommendation = UnableToCalculate

\* the positions of the colour tokens that reach AA against a background value
SufficientColourTokens(tokens, backgroundValue) ==
    {i \in 1..Len(tokens) :
        /\ tokens[i].category = "color"
        /\ IsSufficient(checkContrast(tokens[i].value, backgroundValue))}

\* C10: when a contrast is computed and fails AA, the recommendation names the
\* first token in catalog order of category color whose contrast against the
\* same background value passes AA, which is never the background token; if
\* no colour token passes, it states that no alternative exists.
C10_FirstFitRecommendation ==
    (/\ op = "checkTokenContrast"
     /\ result.contrast # NullValue
     /\ ~result.contrast.wcagAA)
    =>  LET fits == SufficientColourTokens(catalog, result.backgroundValue)
        IN  IF fits = {} THEN result.recommendation = NoAlternative
            ELSE \E i \in fits :
                    /\ \A k \in fits : i <= k
                    /\ result.recommendation = TryUsing(catalog[i])
                    /\ catalog[i].name # args.backgroundToken

\* the contrast fails, a token of another category that would pass and a
\* colour token that fails come first, and a later colour token is named
C10_Witness ==
    /\ op = "checkTokenContrast"
    /\ result.contrast # NullValue
    /\ ~result.contrast.wcagAA
    /\ \E i \in 1..Len(catalog) : \E j \in 1..Len(catalog) : \E k \in 1..Len(catalog) :
        /\ i < k /\ j < k
        /\ catalog[i].category # "color"
        /\ IsSufficient(checkContrast(catalog[i].value, result.backgroundValue))
        /\ catalog[j].category = "color"
        /\ ~IsSufficient(checkContrast(catalog[j].value, result.backgroundValue))
        /\ result.recommendation = TryUsing(catalog[k])

\* a failing contrast for which no colour token of the catalog passes
C10_WitnessNone ==
    /\ op = "checkTokenContrast"
    /\ result.contrast # NullValue
    /\ ~result.contrast.wcagAA
    /\ \E i \in 1..Len(catalog) : catalog[i].category = "color" /\ catalog[i].name # args.foregroundToken
    /\ result.recommendation = NoAlternative

\* C11 (as claimed): the list checkAllCombinations returns is in descending
\* order of contrast ratio: of any two results that both carry a contrast,
\* the earlier one has a ratio at least that of the later one, also when
\* results without a contrast lie between the two.
C11_SortedDescending ==
    op = "checkAllCombinations" =>
        \A i \in 1..Len(result) : \A j \in 1..Len(result) :
            (/\ i < j
             /\ result[i].contrast # NullValue
             /\ result[j].contrast # NullValue)
            => result[i].contrast.ratio >= result[j].contrast.ratio

(***************************************************************************)
(* passes and recommendation of a contrast check                           *)
(***************************************************************************)
\* one of the four texts a failing check carries
IsFailureText(recommendation, tokens) ==
    \/ recommendation \in {TokenNotFound, UnableToCalculate, NoAlternative}
    \/ \E i \in 1..Len(tokens) :
        recommendation = <<"T", "r", "y", " ", "u", "s", "i", "n", "g", " ">> \o tokens[i].name \o <<" ", "(">>
                            \o tokens[i].value \o <<")", " ", "f", "o", "r", " ", "b", "e", "t", "t", "e", "r", " ", "c", "o", "n", "t", "r", "a", "s", "t">>

PassesFitsRecommendation(r, tokens) ==
    /\ r.passes => r.contrast # NullValue /\ r.contrast.wcagAA
    /\ r.passes => r.recommendation = <<>>
    /\ ~r.passes => r.recommendation # <<>> /\ IsFailureText(r.recommendation, tokens)

\* C29: every result of checkTokenContrast, returned alone or in the list of
\* checkAllCombinations, satisfies: passes is true only if a contrast was
\* computed and its wcagAA flag is true; whenever passes is false the
\* recommendation is a non-empty text (token not found, unable to calculate,
\* a suggested token, no alternative); whenever passes is true the
\* recommendation is empty.
C29_PassesFitsRecommendation ==
    /\ op = "checkTokenContrast" => PassesFitsRecommendation(result, catalog)
    /\ op = "checkAllCombinations" =>
        \A i \in 1..Len(result) : PassesFitsRecommendation(result[i], catalog)

\* a pair passes: the recommendation is empty
C29_Witness ==
    /\ op = "checkTokenContrast"
    /\ result.passes
    /\ result.contrast.wcagAA
    /\ result.recommendation = <<>>

\* a contrast is computed and is insufficient: a token is suggested
C29_WitnessSuggested ==
    /\ op = "checkTokenContrast"
    /\ result.contrast # NullValue
    /\ ~result.passes
    /\ SubSeq(result.recommendation, 1, 10) = <<"T", "r", "y", " ", "u", "s", "i", "n", "g", " ">>

\* no contrast can be computed
C29_WitnessUnable ==
    /\ op = "checkTokenContrast"
    /\ ~result.passes
    /\ result.recommendation = UnableToCalculate

(***************************************************************************)
(* SpecColor, continued: contrast of two colour values                     *)
(***************************************************************************)
\* hex colours of 3 and 6 digits, rgb() and rgba() calls, a colour between
\* blanks, values that are no hex or rgb() colour, and two colours whose
\* ratio against white lies just below 4.5 and just below 7
ColorValues ==
    { <<"#", "F", "F", "F", "F", "F", "F">>, <<"#", "0", "0", "0", "0", "0", "0">>, <<"#", "F", "F", "F">>, <<"#", "7", "7", "7", "7", "7", "7">>, <<"#", "7", "6", "7", "6", "7", "6">>, <<"#", "5", "9", "5", "9", "5", "9">>,
      <<"#", "2", "1", "2", "5", "2", "9">>, <<"r", "g", "b", "(", "0", ",", " ", "1", "0", "2", ",", " ", "2", "0", "4", ")">>, <<"r", "g", "b", "a", "(", "2", "5", "5", ",", "2", "5", "5", ",", "2", "5", "5", ",", "0", ".", "5", ")">>, <<" ", "#", "0", "0", "6", "6", "C", "C", " ">>,
      <<"2", "1", "6">>, <<"5", "8", "%">>, <<"h", "s", "l", "(", "0", "d", "e", "g", " ", "0", "%", " ", "0", "%", ")">>, <<"#", "a", "b", "c", "d">>, <<"#", "4", "D", "8", "3", "4", "D">>, <<"#", "0", "C", "6", "8", "0", "C">> }

ContrastInputs == {[foreground |-> f, background |-> b] : f \in ColorValues, b \in ColorValues}

CheckContrastCall ==
    /\ op = "init"
    /\ "foreground" \in DOMAIN args
    /\ op' = "checkContrast"
    /\ result' = checkContrast(args.foreground, args.background)
    /\ UNCHANGED <<catalog, args>>

InitColor ==
    /\ catalog = <<>>
    /\ op = "init"
    /\ args \in {[hex |-> h] : h \in ValidHexInputs \cup MalformedHexInputs}
                \cup ContrastInputs
    /\ result = NoResult

HexToRgbCall ==
    /\ op = "init"
    /\ "hex" \in DOMAIN args
    /\ op' = "hexToRgb"
    /\ result' = hexToRgb(args.hex)
    /\ UNCHANGED <<catalog, args>>

GetContrastRatioCall ==
    /\ op = "init"
    /\ "foreground" \in DOMAIN args
    /\ op' = "getContrastRatio"
    /\ result' = getContrastRatio(args.foreground, args.background)
    /\ UNCHANGED <<catalog, args>>

NextColor == HexToHSLCall \/ CheckContrastCall \/ HexToRgbCall \/ GetContrastRatioCall

SpecColor == InitColor /\ [][NextColor]_vars

\* C1 (as claimed): for every valid 6-digit hex colour hexToHSL returns an
\* integer hue with 0 <= h < 360, an integer saturation in 0..100 and an
\* integer lightness in 0..100.
C1_HslInRange ==
    (op = "hexToHSL" /\ IsHex6(args.hex)) =>
        /\ result.h \in 0..359
        /\ result.s \in 0..100
        /\ result.l \in 0..100

\* C7: the flags follow the unrounded ratio: ratio >= 7 gives wcagAA, wcagAAA
\* and score AAA; 4.5 <= ratio < 7 gives wcagAA, not wcagAAA, and score AA;
\* ratio < 4.5 gives neither and score fail.
C7_ClassificationThresholds ==
    (op = "checkContrast" /\ result # NullValue) =>
        LET ratio == getContrastRatio(args.foreground, args.background)
            atLeast7 == ratio.num >= 7 * ratio.den
            atLeast4p5 == 2 * ratio.num >= 9 * ratio.den
        IN  /\ atLeast7 =>
                result.wcagAA /\ result.wcagAAA /\ result.score = "AAA"
            /\ (atLeast4p5 /\ ~atLeast7) =>
                result.wcagAA /\ ~result.wcagAAA /\ result.score = "AA"
            /\ ~atLeast4p5 =>
                ~result.wcagAA /\ ~result.wcagAAA /\ result.score = "fail"
            /\ result.wcagAAA => result.wcagAA

\* a pair of colours whose ratio lies between 4.5 and 7, classified AA
C7_Witness ==
    /\ op = "checkContrast"
    /\ result # NullValue
    /\ result.ratio >= 450 /\ result.ratio < 700
    /\ result.score = "AA"

\* one leading '#' removed, exactly 3 or exactly 6 hexadecimal digits remain
IsHex3or6(s) ==
    /\ Len(StripLeadingHash(s)) \in {3, 6}
    /\ \A i \in 1..Len(StripLeadingHash(s)) : IsHexDigit(StripLeadingHash(s)[i])

\* C14 (as claimed): hexToRgb returns null for every input that, one leading
\* '#' removed, is not exactly 3 or exactly 6 hexadecimal digits, also when
\* only the second character of a channel pair is no hexadecimal digit; for
\* valid input every channel is an integer in 0..255.
C14_HexToRgbRejectsMalformed ==
    op = "hexToRgb" =>
        IF IsHex3or6(args.hex)
        THEN /\ result # NullValue
             /\ result.r \in 0..255 /\ result.g \in 0..255 /\ result.b \in 0..255
        ELSE result = NullValue

\* the typed failure the conversion is specified to report
InvalidFormat == [failure |-> "InvalidFormat"]

\* C15 (as claimed): for malformed hex input (3 digits, wrong length,
\* characters that are no hexadecimal digits) hexToHSL reports the failure
\* InvalidFormat and returns no triple, be it of numbers or of NaN.
C15_HexToHslRejectsMalformed ==
    (op = "hexToHSL" /\ ~IsHex6(args.hex)) => result = InvalidFormat

\* C16: the contrast ratio of a parseable colour against itself is exactly 1,
\* and the ratio of any two parseable colours is at least 1 and the same
\* whichever of the two is the foreground.
C16_RatioReflexiveSymmetric ==
    (op = "getContrastRatio" /\ result # NullValue) =>
        /\ result.num >= result.den
        /\ result = getContrastRatio(args.background, args.foreground)
        /\ args.foreground = args.background => result.num = result.den

\* a darker colour before a lighter one, and a colour against itself
C16_Witness ==
    /\ op = "getContrastRatio"
    /\ result # NullValue
    /\ args.foreground = <<"#", "2", "1", "2", "5", "2", "9">>
    /\ args.background = <<"r", "g", "b", "(", "0", ",", " ", "1", "0", "2", ",", " ", "2", "0", "4", ")">>
    /\ result.num > result.den

C16_WitnessSelf ==
    /\ op = "getContrastRatio"
    /\ args.foreground = <<"#", "7", "6", "7", "6", "7", "6">>
    /\ args.background = args.foreground
    /\ result # NullValue
    /\ result.num = result.den

\* the ratio lies in [lo / 200, hi / 200)
RatioWithin(ratio, lo, hi) ==
    /\ 200 * ratio.num >= lo * ratio.den
    /\ 200 * ratio.num < hi * ratio.den

\* r hundredths is the ratio rounded to two decimals, halves upwards
IsRoundedTo(ratio, r) ==
    /\ 200 * ratio.num >= (2 * r - 1) * ratio.den
    /\ 200 * ratio.num < (2 * r + 1) * ratio.den

FlagsOnUnrounded(reported, ratio) ==
    /\ IsRoundedTo(ratio, reported.ratio)
    /\ reported.wcagAA <=> 2 * ratio.num >= 9 * ratio.den
    /\ reported.wcagAAA <=> ratio.num >= 7 * ratio.den
    /\ RatioWithin(ratio, 899, 900) => reported.ratio = 450 /\ ~reported.wcagAA
    /\ RatioWithin(ratio, 1399, 1400) => reported.ratio = 700 /\ ~reported.wcagAAA

\* C21: the reported ratio is the full ratio rounded to two decimals, while
\* wcagAA and wcagAAA are decided on the unrounded ratio: a ratio in
\* [4.495, 4.5) is reported as 4.5 with wcagAA false, a ratio in [6.995, 7)
\* as 7 with wcagAAA false.
C21_RoundedReportExactFlags ==
    (op = "checkContrast" /\ result # NullValue) =>
        FlagsOnUnrounded(result, getContrastRatio(args.foreground, args.background))

\* a ratio reported as 4.5 that fails AA
C21_Witness ==
    /\ op = "checkContrast"
    /\ result # NullValue
    /\ result.ratio = 450
    /\ ~result.wcagAA

\* a ratio reported as 7 that passes AA and fails AAA
C21_WitnessAAA ==
    /\ op = "checkContrast"
    /\ result # NullValue
    /\ result.ratio = 700
    /\ result.wcagAA
    /\ ~result.wcagAAA

(***************************************************************************)
(* The static catalog: designTokens (optics-data.ts), name, value and      *)
(* category of each of its 83 entries in source order                      *)
(***************************************************************************)
designTokens ==
    <<
       Token(<<"o", "p", "-", "c", "o", "l", "o", "r", "-", "p", "r", "i", "m", "a", "r", "y", "-", "h">>,
             <<"2", "1", "6">>, "color"),
       Token(<<"o", "p", "-", "c", "o", "l", "o", "r", "-", "p", "r", "i", "m", "a", "r", "y", "-", "s">>,
             <<"5", "8", "%">>, "color"),
       Token(<<"o", "p", "-", "c", "o", "l", "o", "r", "-", "p", "r", "i", "m", "a", "r", "y", "-", "l">>,
             <<"4", "8", "%">>, "color"),
       Token(<<"o", "p", "-", "c", "o", "l", "o", "r", "-", "n", "e", "u", "t", "r", "a", "l", "-", "h">>,
             <<"2", "1", "6">>, "color"),
       Token(<<"o", "p", "-", "c", "o", "l", "o", "r", "-", "n", "e", "u", "t", "r", "a", "l", "-", "s">>,
             <<"4", "%">>, "color"),
       Token(<<"o", "p", "-", "c", "o", "l", "o", "r", "-", "n", "e", "u", "t", "r", "a", "l", "-", "l">>,
             <<"4", "8", "%">>, "color"),
       Token(<<"o", "p", "-", "c", "o", "l", "o", "r", "-", "a", "l", "e", "r", "t", "s", "-", "w", "a", "r", "n", "i", "n", "g", "-", "h">>,
             <<"4", "7">>, "color"),
       Token(<<"o", "p", "-", "c", "o", "l", "o", "r", "-", "a", "l", "e", "r", "t", "s", "-", "w", "a", "r", "n", "i", "n", "g", "-", "s">>,
             <<"1", "0", "0", "%">>, "color"),
       Token(<<"o", "p", "-", "c", "o", "l", "o", "r", "-", "a", "l", "e", "r", "t", "s", "-", "w", "a", "r", "n", "i", "n", "g", "-", "l">>,
             <<"6", "1", "%">>, "color"),
       Token(<<"o", "p", "-", "c", "o", "l", "o", "r", "-", "a", "l", "e", "r", "t", "s", "-", "d", "a", "n", "g", "e", "r", "-", "h">>,
             <<"0">>, "color"),
       Token(<<"o", "p", "-", "c", "o", "l", "o", "r", "-", "a", "l", "e", "r", "t", "s", "-", "d", "a", "n", "g", "e", "r", "-", "s">>,
             <<"9", "9", "%">>, "color"),
       Token(<<"o", "p", "-", "c", "o", "l", "o", "r", "-", "a", "l", "e", "r", "t", "s", "-", "d", "a", "n", "g", "e", "r", "-", "l">>,
             <<"7", "6", "%">>, "color"),
       Token(<<"o", "p", "-", "c", "o", "l", "o", "r", "-", "a", "l", "e", "r", "t", "s", "-", "i", "n", "f", "o", "-", "h">>,
             <<"2", "1", "6">>, "color"),
       Token(<<"o", "p", "-", "c", "o", "l", "o", "r", "-", "a", "l", "e", "r", "t", "s", "-", "i", "n", "f", "o", "-", "s">>,
             <<"5", "8", "%">>, "color"),
       Token(<<"o", "p", "-", "c", "o", "l", "o", "r", "-", "a", "l", "e", "r", "t", "s", "-", "i", "n", "f", "o", "-", "l">>,
             <<"4", "8", "%">>, "color"),
       Token(<<"o", "p", "-", "c", "o", "l", "o", "r", "-", "a", "l", "e", "r", "t", "s", "-", "n", "o", "t", "i", "c", "e", "-", "h">>,
             <<"1", "3", "0">>, "color"),
       Token(<<"o", "p", "-", "c", "o", "l", "o", "r", "-", "a", "l", "e", "r", "t", "s", "-", "n", "o", "t", "i", "c", "e", "-", "s">>,
             <<"6", "1", "%">>, "color"),
       Token(<<"o", "p", "-", "c", "o", "l", "o", "r", "-", "a", "l", "e", "r", "t", "s", "-", "n", "o", "t", "i", "c", "e", "-", "l">>,
             <<"6", "4", "%">>, "color"),
       Token(<<"o", "p", "-", "c", "o", "l", "o", "r", "-", "w", "h", "i", "t", "e">>,
             <<"h", "s", "l", "(", "0", "d", "e", "g", " ", "1", "0", "0", "%", " ", "1", "0", "0", "%", ")">>, "color"),
       Token(<<"o", "p", "-", "c", "o", "l", "o", "r", "-", "b", "l", "a", "c", "k">>,
             <<"h", "s", "l", "(", "0", "d", "e", "g", " ", "0", "%", " ", "0", "%", ")">>, "color"),
       Token(<<"o", "p", "-", "s", "p", "a", "c", "e", "-", "s", "c", "a", "l", "e", "-", "u", "n", "i", "t">>,
             <<"1", "r", "e", "m">>, "spacing"),
       Token(<<"o", "p", "-", "s", "p", "a", "c", "e", "-", "3", "x", "-", "s", "m", "a", "l", "l">>,
             <<"c", "a", "l", "c", "(", "v", "a", "r", "(", "-", "-", "o", "p", "-", "s", "p", "a", "c", "e", "-", "s", "c", "a", "l", "e", "-", "u", "n", "i", "t", ")", " ", "*", " ", "0", ".", "2", ")">>, "spacing"),
       Token(<<"o", "p", "-", "s", "p", "a", "c", "e", "-", "2", "x", "-", "s", "m", "a", "l", "l">>,
             <<"c", "a", "l", "c", "(", "v", "a", "r", "(", "-", "-", "o", "p", "-", "s", "p", "a", "c", "e", "-", "s", "c", "a", "l", "e", "-", "u", "n", "i", "t", ")", " ", "*", " ", "0", ".", "4", ")">>, "spacing"),
       Token(<<"o", "p", "-", "s", "p", "a", "c", "e", "-", "x", "-", "s", "m", "a", "l", "l">>,
             <<"c", "a", "l", "c", "(", "v", "a", "r", "(", "-", "-", "o", "p", "-", "s", "p", "a", "c", "e", "-", "s", "c", "a", "l", "e", "-", "u", "n", "i", "t", ")", " ", "*", " ", "0", ".", "8", ")">>, "spacing"),
       Token(<<"o", "p", "-", "s", "p", "a", "c", "e", "-", "s", "m", "a", "l", "l">>,
             <<"c", "a", "l", "c", "(", "v", "a", "r", "(", "-", "-", "o", "p", "-", "s", "p", "a", "c", "e", "-", "s", "c", "a", "l", "e", "-", "u", "n", "i", "t", ")", " ", "*", " ", "1", ".", "2", ")">>, "spacing"),
       Token(<<"o", "p", "-", "s", "p", "a", "c", "e", "-", "m", "e", "d", "i", "u", "m">>,
             <<"c", "a", "l", "c", "(", "v", "a", "r", "(", "-", "-", "o", "p", "-", "s", "p", "a", "c", "e", "-", "s", "c", "a", "l", "e", "-", "u", "n", "i", "t", ")", " ", "*", " ", "1", ".", "6", ")">>, "spacing"),
       Token(<<"o", "p", "-", "s", "p", "a", "c", "e", "-", "l", "a", "r", "g", "e">>,
             <<"c", "a", "l", "c", "(", "v", "a", "r", "(", "-", "-", "o", "p", "-", "s", "p", "a", "c", "e", "-", "s", "c", "a", "l", "e", "-", "u", "n", "i", "t", ")", " ", "*", " ", "2", ")">>, "spacing"),
       Token(<<"o", "p", "-", "s", "p", "a", "c", "e", "-", "x", "-", "l", "a", "r", "g", "e">>,
             <<"c", "a", "l", "c", "(", "v", "a", "r", "(", "-", "-", "o", "p", "-", "s", "p", "a", "c", "e", "-", "s", "c", "a", "l", "e", "-", "u", "n", "i", "t", ")", " ", "*", " ", "2", ".", "4", ")">>, "spacing"),
       Token(<<"o", "p", "-", "s", "p", "a", "c", "e", "-", "2", "x", "-", "l", "a", "r", "g", "e">>,
             <<"c", "a", "l", "c", "(", "v", "a", "r", "(", "-", "-", "o", "p", "-", "s", "p", "a", "c", "e", "-", "s", "c", "a", "l", "e", "-", "u", "n", "i", "t", ")", " ", "*", " ", "2", ".", "8", ")">>, "spacing"),
       Token(<<"o", "p", "-", "s", "p", "a", "c", "e", "-", "3", "x", "-", "l", "a", "r", "g", "e">>,
             <<"c", "a", "l", "c", "(", "v", "a", "r", "(", "-", "-", "o", "p", "-", "s", "p", "a", "c", "e", "-", "s", "c", "a", "l", "e", "-", "u", "n", "i", "t", ")", " ", "*", " ", "4", ")">>, "spacing"),
       Token(<<"o", "p", "-", "s", "p", "a", "c", "e", "-", "4", "x", "-", "l", "a", "r", "g", "e">>,
             <<"c", "a", "l", "c", "(", "v", "a", "r", "(", "-", "-", "o", "p", "-", "s", "p", "a", "c", "e", "-", "s", "c", "a", "l", "e", "-", "u", "n", "i", "t", ")", " ", "*", " ", "8", ")">>, "spacing"),
       Token(<<"o", "p", "-", "f", "o", "n", "t", "-", "f", "a", "m", "i", "l", "y">>,
             <<"'", "N", "o", "t", "o", " ", "S", "a", "n", "s", "'", ",", " ", "'", "N", "o", "t", "o", " ", "S", "e", "r", "i", "f", "'", ",", " ", "s", "a", "n", "s", "-", "s", "e", "r", "i", "f">>, "typography"),
       Token(<<"o", "p", "-", "f", "o", "n", "t", "-", "s", "c", "a", "l", "e", "-", "u", "n", "i", "t">>,
             <<"1", "r", "e", "m">>, "typography"),
       Token(<<"o", "p", "-", "f", "o", "n", "t", "-", "2", "x", "-", "s", "m", "a", "l", "l">>,
             <<"c", "a", "l", "c", "(", "v", "a", "r", "(", "-", "-", "o", "p", "-", "f", "o", "n", "t", "-", "s", "c", "a", "l", "e", "-", "u", "n", "i", "t", ")", " ", "*", " ", "1", ")">>, "typography"),
       Token(<<"o", "p", "-", "f", "o", "n", "t", "-", "x", "-", "s", "m", "a", "l", "l">>,
             <<"c", "a", "l", "c", "(", "v", "a", "r", "(", "-", "-", "o", "p", "-", "f", "o", "n", "t", "-", "s", "c", "a", "l", "e", "-", "u", "n", "i", "t", ")", " ", "*", " ", "1", ".", "2", ")">>, "typography"),
       Token(<<"o", "p", "-", "f", "o", "n", "t", "-", "s", "m", "a", "l", "l">>,
             <<"c", "a", "l", "c", "(", "v", "a", "r", "(", "-", "-", "o", "p", "-", "f", "o", "n", "t", "-", "s", "c", "a", "l", "e", "-", "u", "n", "i", "t", ")", " ", "*", " ", "1", ".", "4", ")">>, "typography"),
       Token(<<"o", "p", "-", "f", "o", "n", "t", "-", "m", "e", "d", "i", "u", "m">>,
             <<"c", "a", "l", "c", "(", "v", "a", "r", "(", "-", "-", "o", "p", "-", "f", "o", "n", "t", "-", "s", "c", "a", "l", "e", "-", "u", "n", "i", "t", ")", " ", "*", " ", "1", ".", "6", ")">>, "typography"),
       Token(<<"o", "p", "-", "f", "o", "n", "t", "-", "l", "a", "r", "g", "e">>,
             <<"c", "a", "l", "c", "(", "v", "a", "r", "(", "-", "-", "o", "p", "-", "f", "o", "n", "t", "-", "s", "c", "a", "l", "e", "-", "u", "n", "i", "t", ")", " ", "*", " ", "1", ".", "8", ")">>, "typography"),
       Token(<<"o", "p", "-", "f", "o", "n", "t", "-", "x", "-", "l", "a", "r", "g", "e">>,
             <<"c", "a", "l", "c", "(", "v", "a", "r", "(", "-", "-", "o", "p", "-", "f", "o", "n", "t", "-", "s", "c", "a", "l", "e", "-", "u", "n", "i", "t", ")", " ", "*", " ", "2", ")">>, "typography"),
       Token(<<"o", "p", "-", "f", "o", "n", "t", "-", "2", "x", "-", "l", "a", "r", "g", "e">>,
             <<"c", "a", "l", "c", "(", "v", "a", "r", "(", "-", "-", "o", "p", "-", "f", "o", "n", "t", "-", "s", "c", "a", "l", "e", "-", "u", "n", "i", "t", ")", " ", "*", " ", "2", ".", "4", ")">>, "typography"),
       Token(<<"o", "p", "-", "f", "o", "n", "t", "-", "3", "x", "-", "l", "a", "r", "g", "e">>,
             <<"c", "a", "l", "c", "(", "v", "a", "r", "(", "-", "-", "o", "p", "-", "f", "o", "n", "t", "-", "s", "c", "a", "l", "e", "-", "u", "n", "i", "t", ")", " ", "*", " ", "2", ".", "8", ")">>, "typography"),
       Token(<<"o", "p", "-", "f", "o", "n", "t", "-", "4", "x", "-", "l", "a", "r", "g", "e">>,
             <<"c", "a", "l", "c", "(", "v", "a", "r", "(", "-", "-", "o", "p", "-", "f", "o", "n", "t", "-", "s", "c", "a", "l", "e", "-", "u", "n", "i", "t", ")", " ", "*", " ", "3", ".", "2", ")">>, "typography"),
       Token(<<"o", "p", "-", "f", "o", "n", "t", "-", "5", "x", "-", "l", "a", "r", "g", "e">>,
             <<"c", "a", "l", "c", "(", "v", "a", "r", "(", "-", "-", "o", "p", "-", "f", "o", "n", "t", "-", "s", "c", "a", "l", "e", "-", "u", "n", "i", "t", ")", " ", "*", " ", "3", ".", "6", ")">>, "typography"),
       Token(<<"o", "p", "-", "f", "o", "n", "t", "-", "6", "x", "-", "l", "a", "r", "g", "e">>,
             <<"c", "a", "l", "c", "(", "v", "a", "r", "(", "-", "-", "o", "p", "-", "f", "o", "n", "t", "-", "s", "c", "a", "l", "e", "-", "u", "n", "i", "t", ")", " ", "*", " ", "4", ".", "8", ")">>, "typography"),
       Token(<<"o", "p", "-", "f", "o", "n", "t", "-", "w", "e", "i", "g", "h", "t", "-", "t", "h", "i", "n">>,
             <<"1", "0", "0">>, "typography"),
       Token(<<"o", "p", "-", "f", "o", "n", "t", "-", "w", "e", "i", "g", "h", "t", "-", "e", "x", "t", "r", "a", "-", "l", "i", "g", "h", "t">>,
             <<"2", "0", "0">>, "typography"),
       Token(<<"o", "p", "-", "f", "o", "n", "t", "-", "w", "e", "i", "g", "h", "t", "-", "l", "i", "g", "h", "t">>,
             <<"3", "0", "0">>, "typography"),
       Token(<<"o", "p", "-", "f", "o", "n", "t", "-", "w", "e", "i", "g", "h", "t", "-", "n", "o", "r", "m", "a", "l">>,
             <<"4", "0", "0">>, "typography"),
       Token(<<"o", "p", "-", "f", "o", "n", "t", "-", "w", "e", "i", "g", "h", "t", "-", "m", "e", "d", "i", "u", "m">>,
             <<"5", "0", "0">>, "typography"),
       Token(<<"o", "p", "-", "f", "o", "n", "t", "-", "w", "e", "i", "g", "h", "t", "-", "s", "e", "m", "i", "-", "b", "o", "l", "d">>,
             <<"6", "0", "0">>, "typography"),
       Token(<<"o", "p", "-", "f", "o", "n", "t", "-", "w", "e", "i", "g", "h", "t", "-", "b", "o", "l", "d">>,
             <<"7", "0", "0">>, "typography"),
       Token(<<"o", "p", "-", "f", "o", "n", "t", "-", "w", "e", "i", "g", "h", "t", "-", "e", "x", "t", "r", "a", "-", "b", "o", "l", "d">>,
             <<"8", "0", "0">>, "typography"),
       Token(<<"o", "p", "-", "f", "o", "n", "t", "-", "w", "e", "i", "g", "h", "t", "-", "b", "l", "a", "c", "k">>,
             <<"9", "0", "0">>, "typography"),
       Token(<<"o", "p", "-", "l", "i", "n", "e", "-", "h", "e", "i", "g", "h", "t", "-", "n", "o", "n", "e">>,
             <<"0">>, "typography"),
       Token(<<"o", "p", "-", "l", "i", "n", "e", "-", "h", "e", "i", "g", "h", "t", "-", "d", "e", "n", "s", "e", "s", "t">>,
             <<"1">>, "typography"),
       Token(<<"o", "p", "-", "l", "i", "n", "e", "-", "h", "e", "i", "g", "h", "t", "-", "d", "e", "n", "s", "e", "r">>,
             <<"1", ".", "1", "5">>, "typography"),
       Token(<<"o", "p", "-", "l", "i", "n", "e", "-", "h", "e", "i", "g", "h", "t", "-", "d", "e", "n", "s", "e">>,
             <<"1", ".", "3">>, "typography"),
       Token(<<"o", "p", "-", "l", "i", "n", "e", "-", "h", "e", "i", "g", "h", "t", "-", "b", "a", "s", "e">>,
             <<"1", ".", "5">>, "typography"),
       Token(<<"o", "p", "-", "l", "i", "n", "e", "-", "h", "e", "i", "g", "h", "t", "-", "l", "o", "o", "s", "e">>,
             <<"1", ".", "6">>, "typography"),
       Token(<<"o", "p", "-", "l", "i", "n", "e", "-", "h", "e", "i", "g", "h", "t", "-", "l", "o", "o", "s", "e", "r">>,
             <<"1", ".", "7">>, "typography"),
       Token(<<"o", "p", "-", "l", "i", "n", "e", "-", "h", "e", "i", "g", "h", "t", "-", "l", "o", "o", "s", "e", "s", "t">>,
             <<"1", ".", "8">>, "typography"),
       Token(<<"o", "p", "-", "l", "e", "t", "t", "e", "r", "-", "s", "p", "a", "c", "i", "n", "g", "-", "n", "a", "v", "i", "g", "a", "t", "i", "o", "n">>,
             <<"0", ".", "0", "1", "r", "e", "m">>, "typography"),
       Token(<<"o", "p", "-", "l", "e", "t", "t", "e", "r", "-", "s", "p", "a", "c", "i", "n", "g", "-", "l", "a", "b", "e", "l">>,
             <<"0", ".", "0", "4", "r", "e", "m">>, "typography"),
       Token(<<"o", "p", "-", "r", "a", "d", "i", "u", "s", "-", "s", "m", "a", "l", "l">>,
             <<"2", "p", "x">>, "border"),
       Token(<<"o", "p", "-", "r", "a", "d", "i", "u", "s", "-", "m", "e", "d", "i", "u", "m">>,
             <<"4", "p", "x">>, "border"),
       Token(<<"o", "p", "-", "r", "a", "d", "i", "u", "s", "-", "l", "a", "r", "g", "e">>,
             <<"8", "p", "x">>, "border"),
       Token(<<"o", "p", "-", "r", "a", "d", "i", "u", "s", "-", "x", "-", "l", "a", "r", "g", "e">>,
             <<"1", "2", "p", "x">>, "border"),
       Token(<<"o", "p", "-", "r", "a", "d", "i", "u", "s", "-", "2", "x", "-", "l", "a", "r", "g", "e">>,
             <<"1", "6", "p", "x">>, "border"),
       Token(<<"o", "p", "-", "r", "a", "d", "i", "u", "s", "-", "c", "i", "r", "c", "l", "e">>,
             <<"5", "0", "%">>, "border"),
       Token(<<"o", "p", "-", "r", "a", "d", "i", "u", "s", "-", "p", "i", "l", "l">>,
             <<"9", "9", "9", "9", "p", "x">>, "border"),
       Token(<<"o", "p", "-", "b", "o", "r", "d", "e", "r", "-", "w", "i", "d", "t", "h">>,
             <<"1", "p", "x">>, "border"),
       Token(<<"o", "p", "-", "b", "o", "r", "d", "e", "r", "-", "w", "i", "d", "t", "h", "-", "l", "a", "r", "g", "e">>,
             <<"2", "p", "x">>, "border"),
       Token(<<"o", "p", "-", "b", "o", "r", "d", "e", "r", "-", "w", "i", "d", "t", "h", "-", "x", "-", "l", "a", "r", "g", "e">>,
             <<"4", "p", "x">>, "border"),
       Token(<<"o", "p", "-", "s", "h", "a", "d", "o", "w", "-", "x", "-", "s", "m", "a", "l", "l">>,
             <<"0", " ", "1", "p", "x", " ", "2", "p", "x", " ", "h", "s", "l", "(", "0", "d", "e", "g", " ", "0", "%", " ", "0", "%", " ", "/", " ", "3", "%", ")", ",", " ", "0", " ", "1", "p", "x", " ", "3", "p", "x", " ", "h", "s", "l", "(", "0", "d", "e", "g", " ", "0", "%", " ", "0", "%", " ", "/", " ", "1", "5", "%", ")">>, "shadow"),
       Token(<<"o", "p", "-", "s", "h", "a", "d", "o", "w", "-", "s", "m", "a", "l", "l">>,
             <<"0", " ", "1", "p", "x", " ", "2", "p", "x", " ", "h", "s", "l", "(", "0", "d", "e", "g", " ", "0", "%", " ", "0", "%", " ", "/", " ", "3", "%", ")", ",", " ", "0", " ", "2", "p", "x", " ", "6", "p", "x", " ", "h", "s", "l", "(", "0", "d", "e", "g", " ", "0", "%", " ", "0", "%", " ", "/", " ", "1", "5", "%", ")">>, "shadow"),
       Token(<<"o", "p", "-", "s", "h", "a", "d", "o", "w", "-", "m", "e", "d", "i", "u", "m">>,
             <<"0", " ", "4", "p", "x", " ", "8", "p", "x", " ", "h", "s", "l", "(", "0", "d", "e", "g", " ", "0", "%", " ", "0", "%", " ", "/", " ", "1", "5", "%", ")", ",", " ", "0", " ", "1", "p", "x", " ", "3", "p", "x", " ", "h", "s", "l", "(", "0", "d", "e", "g", " ", "0", "%", " ", "0", "%", " ", "/", " ", "3", "%", ")">>, "shadow"),
       Token(<<"o", "p", "-", "s", "h", "a", "d", "o", "w", "-", "l", "a", "r", "g", "e">>,
             <<"0", " ", "6", "p", "x", " ", "1", "0", "p", "x", " ", "h", "s", "l", "(", "0", "d", "e", "g", " ", "0", "%", " ", "0", "%", " ", "/", " ", "1", "5", "%", ")", ",", " ", "0", " ", "2", "p", "x", " ", "3", "p", "x", " ", "h", "s", "l", "(", "0", "d", "e", "g", " ", "0", "%", " ", "0", "%", " ", "/", " ", "3", "%", ")">>, "shadow"),
       Token(<<"o", "p", "-", "s", "h", "a", "d", "o", "w", "-", "x", "-", "l", "a", "r", "g", "e">>,
             <<"0", " ", "8", "p", "x", " ", "1", "2", "p", "x", " ", "h", "s", "l", "(", "0", "d", "e", "g", " ", "0", "%", " ", "0", "%", " ", "/", " ", "1", "5", "%", ")", ",", " ", "0", " ", "4", "p", "x", " ", "4", "p", "x", " ", "h", "s", "l", "(", "0", "d", "e", "g", " ", "0", "%", " ", "0", "%", " ", "/", " ", "3", "%", ")">>, "shadow"),
       Token(<<"o", "p", "-", "o", "p", "a", "c", "i", "t", "y", "-", "n", "o", "n", "e">>,
             <<"0">>, "color"),
       Token(<<"o", "p", "-", "o", "p", "a", "c", "i", "t", "y", "-", "o", "v", "e", "r", "l", "a", "y">>,
             <<"0", ".", "2">>, "color"),
       Token(<<"o", "p", "-", "o", "p", "a", "c", "i", "t", "y", "-", "d", "i", "s", "a", "b", "l", "e", "d">>,
             <<"0", ".", "4">>, "color"),
       Token(<<"o", "p", "-", "o", "p", "a", "c", "i", "t", "y", "-", "h", "a", "l", "f">>,
             <<"0", ".", "5">>, "color"),
       Token(<<"o", "p", "-", "o", "p", "a", "c", "i", "t", "y", "-", "f", "u", "l", "l">>,
             <<"1">>, "color")
    >>

(***************************************************************************)
(* Theme assembly: generateColorTokens, generateTheme                      *)
(* (tools/theme-generator.ts)                                              *)
(***************************************************************************)
\* the defaults object of generateColorTokens, in key order
defaults ==
    << [family |-> <<"p", "r", "i", "m", "a", "r", "y">>, hex |-> <<"#", "2", "D", "6", "F", "D", "B">>],
       [family |-> <<"n", "e", "u", "t", "r", "a", "l">>, hex |-> <<"#", "7", "5", "7", "8", "8", "2">>],
       [family |-> <<"a", "l", "e", "r", "t", "s", "-", "w", "a", "r", "n", "i", "n", "g">>, hex |-> <<"#", "F", "F", "D", "9", "3", "D">>],
       [family |-> <<"a", "l", "e", "r", "t", "s", "-", "d", "a", "n", "g", "e", "r">>, hex |-> <<"#", "F", "F", "6", "B", "9", "4">>],
       [family |-> <<"a", "l", "e", "r", "t", "s", "-", "i", "n", "f", "o">>, hex |-> <<"#", "2", "D", "6", "F", "D", "B">>],
       [family |-> <<"a", "l", "e", "r", "t", "s", "-", "n", "o", "t", "i", "c", "e">>, hex |-> <<"#", "6", "A", "C", "F", "7", "1">>] >>

\* String(n) for the numbers hexToHSL returns
NumberToString(n) == IF n = NaN THEN <<"N", "a", "N">> ELSE NumToStr(n)

\* { ...defaults, ...brandColors }: the keys keep the order of defaults, a
\* key of brandColors replaces the default value
MergedColors(brandColors) ==
    [i \in 1..Len(defaults) |->
        [family |-> defaults[i].family,
         hex |-> IF defaults[i].family \in DOMAIN brandColors
                 THEN brandColors[defaults[i].family]
                 ELSE defaults[i].hex]]

\* the three tokens pushed for one family
FamilyTokens(family, hsl) ==
    << Token(<<"o", "p", "-", "c", "o", "l", "o", "r", "-">> \o family \o <<"-", "h">>, NumberToString(hsl.h), "color"),
       Token(<<"o", "p", "-", "c", "o", "l", "o", "r", "-">> \o family \o <<"-", "s">>, NumberToString(hsl.s) \o <<"%">>, "color"),
       Token(<<"o", "p", "-", "c", "o", "l", "o", "r", "-">> \o family \o <<"-", "l">>, NumberToString(hsl.l) \o <<"%">>, "color") >>

\* the loop over Object.entries(colors); an empty hex is skipped
RECURSIVE ColorTokensFrom(_, _)
ColorTokensFrom(colors, i) ==
    IF i > Len(colors) THEN <<>>
    ELSE IF colors[i].hex = <<>> THEN ColorTokensFrom(colors, i + 1)
    ELSE FamilyTokens(colors[i].family, hexToHSL(colors[i].hex))
            \o ColorTokensFrom(colors, i + 1)

generateColorTokens(brandColors) == ColorTokensFrom(MergedColors(brandColors), 1)

\* the catalog's token kept whether or not a custom token has its name
KeepCatalogToken(customToken, token) == token

\* customColorTokens.find(ct => ct.name === token.name) || token
CustomOrSame(customToken, token) ==
    IF customToken = NullValue THEN token ELSE customToken

\* the custom tokens added behind the catalog's instead of replacing them
AppendCustomTokens(tokens, customColorTokens) == tokens \o customColorTokens

ReplaceBaseTokens(tokens, customColorTokens) ==
    [i \in 1..Len(tokens) |->
        CustomOrSame(FindByName(customColorTokens, tokens[i].name, 1), tokens[i])]

\* the tokens of the generated theme
generateTheme(brandColors, tokens) ==
    IF DOMAIN brandColors # {}
    THEN [tokens |-> ReplaceBaseTokens(tokens, generateColorTokens(brandColors))]
    ELSE [tokens |-> tokens]

(***************************************************************************)
(* Theme assembly over the static catalog                                  *)
(***************************************************************************)
FamilyNames == {defaults[i].family : i \in 1..Len(defaults)}

\* a saturated red, a pale grey-blue, an empty string
\* and a three-digit hex
BrandHexInputs == {<<"#", "F", "F", "0", "0", "0", "0">>, <<"#", "E", "8", "E", "E", "F", "7">>, <<>>, <<"#", "F", "F", "F">>}

\* brandColors objects: any subset of the six families, each with a value
BrandColorInputs == UNION {[S -> BrandHexInputs] : S \in SUBSET FamilyNames}

InitTheme ==
    /\ catalog = designTokens
    /\ op = "init"
    /\ args = NoResult
    /\ result = NoResult

\* generateTheme works on the static catalog of its module
GenerateThemeCall(inputs) ==
    /\ catalog = designTokens
    /\ \E brandColors \in inputs :
        /\ op' = "generateTheme"
        /\ args' = [brandColors |-> brandColors]
        /\ result' = generateTheme(brandColors, catalog)
        /\ catalog' = TokensAfterGenerateTheme(catalog)

NextTheme == op = "init" /\ GenerateThemeCall(BrandColorInputs)

SpecTheme == InitTheme /\ [][NextTheme]_vars

\* the names of the three base tokens of a family
BaseTokenNames(family) ==
    {<<"o", "p", "-", "c", "o", "l", "o", "r", "-">> \o family \o suffix : suffix \in {<<"-", "h">>, <<"-", "s">>, <<"-", "l">>}}

\* overrides are given for some families but not all, each a 6-digit hex
OverridesSomeFamilies(brandColors) ==
    /\ DOMAIN brandColors # {}
    /\ DOMAIN brandColors # FamilyNames
    /\ \A f \in DOMAIN brandColors : IsHex6(brandColors[f])

\* C4 (as claimed): when overrides are supplied for only some of the six
\* families, the -h/-s/-l tokens of every family without an override have in
\* the generated theme exactly the values they have in the catalog.
C4_UnoverriddenKeepCatalog ==
    (op = "generateTheme" /\ OverridesSomeFamilies(args.brandColors)) =>
        \A f \in FamilyNames \ DOMAIN args.brandColors :
            \A i \in 1..Len(catalog) : \A j \in 1..Len(result.tokens) :
                (catalog[i].name \in BaseTokenNames(f)
                 /\ result.tokens[j].name = catalog[i].name)
                => result.tokens[j].value = catalog[i].value

\* C5: for any overrides the generated token list has the length of the
\* catalog and at every position the name of the catalog's token, and every
\* token whose category is not color has the catalog's value.
C5_ShapeAndNonColourKept ==
    op = "generateTheme" =>
        /\ Len(result.tokens) = Len(catalog)
        /\ \A i \in 1..Len(catalog) :
            /\ result.tokens[i].name = catalog[i].name
            /\ catalog[i].category # "color" => result.tokens[i].value = catalog[i].value

\* all six families are overridden with hex colours and a base token changed
C5_Witness ==
    /\ op = "generateTheme"
    /\ DOMAIN args.brandColors = FamilyNames
    /\ \A f \in FamilyNames : IsHex6(args.brandColors[f])
    /\ Len(result.tokens) = Len(catalog)
    /\ \E i \in 1..Len(catalog) : result.tokens[i].value # catalog[i].value

(***************************************************************************)
(* Overridden families in the generated theme                              *)
(***************************************************************************)
\* the value a base token of a family takes from an HSL triple
BaseValue(name, family, hsl) ==
    IF name = <<"o", "p", "-", "c", "o", "l", "o", "r", "-">> \o family \o <<"-", "h">> THEN NumberToString(hsl.h)
    ELSE IF name = <<"o", "p", "-", "c", "o", "l", "o", "r", "-">> \o family \o <<"-", "s">> THEN NumberToString(hsl.s) \o <<"%">>
    ELSE NumberToString(hsl.l) \o <<"%">>

\* the names of the base tokens of all six families
AllBaseTokenNames == UNION {BaseTokenNames(f) : f \in FamilyNames}

\* the positions of the catalog holding a base token of the family
BasePositions(family) ==
    {i \in 1..Len(catalog) : catalog[i].name \in BaseTokenNames(family)}

undefined == <<>>

CSSValue(type, value, property) == [type |-> type, value |-> value, property |-> property]

NoMatch == [matched |-> FALSE]

\* a match that ends at position end (1-based, inclusive)
Found(value, property, end) ==
    [matched |-> TRUE, value |-> value, property |-> property, end |-> end]

\* \w
IsWordChar(c) == c \in Range(Digits) \cup Range(LowerAlpha) \cup Range(UpperAlpha) \cup {"_"}

\* the literal stands in s from position i on
MatchesAt(s, i, literal) ==
    /\ i + Len(literal) - 1 <= Len(s)
    /\ \A k \in 1..Len(literal) : s[i + k - 1] = literal[k]

\* the same under the i flag
MatchesAtIgnoreCase(s, i, literal) ==
    /\ i + Len(literal) - 1 <= Len(s)
    /\ \A k \in 1..Len(literal) : LowerChar(s[i + k - 1]) = LowerChar(literal[k])

\* length of the run from position i on of characters inside chars, or
\* outside chars when negated
RECURSIVE RunLen(_, _, _, _)
RunLen(s, i, chars, negated) ==
    IF i <= Len(s) /\ ((s[i] \in chars) # negated)
    THEN 1 + RunLen(s, i + 1, chars, negated)
    ELSE 0

SpaceChars == {" ", "\t", "\n", "\r"}

\* [\d.] as the string given to new RegExp spells it
NumberChars == Range(Digits) \cup {"."}

\* [\\d.] as the regular expression literals spell it, under the i flag: a
\* backslash, the letter d in either case, or a dot
BackslashDChars == {"\\", "d", "D", "."}

\* the index of the first of the alternatives that stands at position i,
\* letter case ignored, or 0
RECURSIVE FirstAlternativeAt(_, _, _, _)
FirstAlternativeAt(s, i, alternatives, k) ==
    IF k > Len(alternatives) THEN 0
    ELSE IF MatchesAtIgnoreCase(s, i, alternatives[k]) THEN k
    ELSE FirstAlternativeAt(s, i, alternatives, k + 1)

\* the first position from i on where one of the heads stands, or the
\* position behind the end: the positions between cannot start a match
NextHead(s, i, heads, ignoreCase) ==
    LET starts == {j \in i..Len(s) : \E k \in 1..Len(heads) :
                        IF ignoreCase THEN MatchesAtIgnoreCase(s, j, heads[k])
                        ELSE MatchesAt(s, j, heads[k])} \cup {Len(s) + 1}
    IN  CHOOSE j \in starts : \A q \in starts : j <= q

\* the exec loop of one regular expression: all matches from position i on
RECURSIVE ScanHex(_, _), ScanRgb(_, _), ScanSpacing(_, _)
RECURSIVE ScanDeclaration(_, _, _, _, _, _), ScanText(_, _, _, _), ScanWeight(_, _)

\* /#[0-9a-fA-F]{3,6}\b/g: k hexadecimal digits follow css[i]
HexDigitsFollow(css, i, k) ==
    /\ i + k <= Len(css)
    /\ \A j \in 1..k : IsHexDigit(css[i + j])

\* \b behind the word character css[e]
WordBoundaryAfter(css, e) == e = Len(css) \/ ~IsWordChar(css[e + 1])

\* {3,6} tries 6 digits first and gives one back at a time
RECURSIVE HexDigitCount(_, _, _)
HexDigitCount(css, i, k) ==
    IF k < 3 THEN 0
    ELSE IF HexDigitsFollow(css, i, k) /\ WordBoundaryAfter(css, i + k) THEN k
    ELSE HexDigitCount(css, i, k - 1)

HexFound(css, i, k) ==
    IF k = 0 THEN ScanHex(css, i + 1)
    ELSE <<CSSValue("color", SubSeq(css, i, i + k), undefined)>> \o ScanHex(css, i + k + 1)

HexAt(css, i) ==
    IF i > Len(css) THEN <<>> ELSE HexFound(css, i, HexDigitCount(css, i, 6))

ScanHex(css, i) == HexAt(css, NextHead(css, i, <<<<"#">>>>, FALSE))

\* /rgba?\([^)]+\)/g: the position of the opening parenthesis, or 0
RgbCallOpen(css, i) ==
    IF MatchesAt(css, i, <<"r", "g", "b", "a", "(">>) THEN i + 4
    ELSE IF MatchesAt(css, i, <<"r", "g", "b", "(">>) THEN i + 3
    ELSE 0

\* n characters other than ')' follow the parenthesis at open
RgbCallFound(css, i, open, n) ==
    IF open = 0 \/ n = 0 \/ open + n + 1 > Len(css) THEN ScanRgb(css, i + 1)
    ELSE <<CSSValue("color", SubSeq(css, i, open + n + 1), undefined)>>
            \o ScanRgb(css, open + n + 2)

RgbCallAt(css, i, open) ==
    RgbCallFound(css, i, open, IF open = 0 THEN 0 ELSE RunLen(css, open + 1, {")"}, TRUE))

RgbAt(css, i) ==
    IF i > Len(css) THEN <<>> ELSE RgbCallAt(css, i, RgbCallOpen(css, i))

ScanRgb(css, i) == RgbAt(css, NextHead(css, i, <<<<"r", "g", "b">>>>, FALSE))

extractColors(css) == ScanHex(css, 1) \o ScanRgb(css, 1)

\* a number and its unit: ([\d.]+(?:px|rem|em)) from position p on, where n
\* characters of the number class stand and u names the unit found behind
\* them (0: none).  The end of the match, or 0.
QuantityEnd(p, n, units, u) ==
    IF n = 0 \/ u = 0 THEN 0 ELSE p + n + Len(units[u]) - 1

QuantityEndAt(css, p, n, units) ==
    QuantityEnd(p, n, units, FirstAlternativeAt(css, p + n, units, 1))

\* \s* and the quantity behind a property name and its colon that end at
\* position colon: start and end of the quantity
QuantityBehind(css, start, chars, units) ==
    [start |-> start,
     end |-> QuantityEndAt(css, start, RunLen(css, start, chars, FALSE), units)]

QuantityAfterColon(css, colon, chars, units) ==
    QuantityBehind(css, colon + 1 + RunLen(css, colon + 1, SpaceChars, FALSE), chars, units)

LengthUnits == <<<<"p", "x">>, <<"r", "e", "m">>, <<"e", "m">>>>

RadiusUnits == <<<<"p", "x">>, <<"r", "e", "m">>, <<"e", "m">>, <<"%">>>>

spacingProps ==
    <<<<"p", "a", "d", "d", "i", "n", "g">>, <<"m", "a", "r", "g", "i", "n">>, <<"g", "a", "p">>, <<"w", "i", "d", "t", "h">>, <<"h", "e", "i", "g", "h", "t">>, <<"t", "o", "p">>, <<"b", "o", "t", "t", "o", "m">>,
      <<"l", "e", "f", "t">>, <<"r", "i", "g", "h", "t">>>>

\* the property names followed by the colon
SpacingHeads == [k \in 1..Len(spacingProps) |-> spacingProps[k] \o <<":">>]

SpacingFound(css, i, k, q) ==
    IF q.end = 0 THEN ScanSpacing(css, i + 1)
    ELSE <<CSSValue("spacing", SubSeq(css, q.start, q.end),
                    SubSeq(css, i, i + Len(spacingProps[k]) - 1))>>
            \o ScanSpacing(css, q.end + 1)

SpacingAt(css, i, k) ==
    IF k = 0 THEN ScanSpacing(css, i + 1)
    ELSE SpacingFound(css, i, k,
            QuantityAfterColon(css, i + Len(spacingProps[k]), NumberChars, LengthUnits))

\* new RegExp(`(padding|...|right):\\s*([\\d.]+(?:px|rem|em))`, 'gi')
SpacingFrom(css, i) ==
    IF i > Len(css) THEN <<>>
    ELSE SpacingAt(css, i, FirstAlternativeAt(css, i, SpacingHeads, 1))

ScanSpacing(css, i) == SpacingFrom(css, NextHead(css, i, SpacingHeads, TRUE))

extractSpacing(css) == ScanSpacing(css, 1)

\* /<property>:\s*([\\d.]+(?:<units>))/gi
DeclarationFound(css, i, type, property, chars, units, q) ==
    IF q.end = 0 THEN ScanDeclaration(css, i + 1, type, property, chars, units)
    ELSE <<CSSValue(type, SubSeq(css, q.start, q.end), property)>>
            \o ScanDeclaration(css, q.end + 1, type, property, chars, units)

DeclarationAt(css, i, type, property, chars, units) ==
    IF i > Len(css) THEN <<>>
    ELSE DeclarationFound(css, i, type, property, chars, units,
            QuantityAfterColon(css, i + Len(property), chars, units))

ScanDeclaration(css, i, type, property, chars, units) ==
    DeclarationAt(css, NextHead(css, i, <<property \o <<":">>>>, TRUE),
                  type, property, chars, units)

extractFontSizes(css) ==
    ScanDeclaration(css, 1, "font-size", <<"f", "o", "n", "t", "-", "s", "i", "z", "e">>, BackslashDChars, LengthUnits)

extractBorderRadius(css) ==
    ScanDeclaration(css, 1, "border-radius", <<"b", "o", "r", "d", "e", "r", "-", "r", "a", "d", "i", "u", "s">>, BackslashDChars, RadiusUnits)

\* (\\d{3}|normal|bold|lighter|bolder) under the i flag: a backslash and
\* three letters d, or one of the keywords, the first that fits
WeightAlternatives == <<<<"\\", "d", "d", "d">>, <<"n", "o", "r", "m", "a", "l">>, <<"b", "o", "l", "d">>, <<"l", "i", "g", "h", "t", "e", "r">>, <<"b", "o", "l", "d", "e", "r">>>>

WeightFound(css, i, start, k) ==
    IF k = 0 THEN ScanWeight(css, i + 1)
    ELSE <<CSSValue("font-weight",
                    SubSeq(css, start, start + Len(WeightAlternatives[k]) - 1),
                    <<"f", "o", "n", "t", "-", "w", "e", "i", "g", "h", "t">>)>>
            \o ScanWeight(css, start + Len(WeightAlternatives[k]))

WeightAt(css, i, start) ==
    WeightFound(css, i, start, FirstAlternativeAt(css, start, WeightAlternatives, 1))

\* /font-weight:\s*(\\d{3}|normal|bold|lighter|bolder)/gi
WeightFrom(css, i, behind) ==
    IF i > Len(css) THEN <<>>
    ELSE WeightAt(css, i, behind + RunLen(css, behind, SpaceChars, FALSE))

ScanWeight(css, i) ==
    WeightFrom(css, NextHead(css, i, <<<<"f", "o", "n", "t", "-", "w", "e", "i", "g", "h", "t", ":">>>>, TRUE),
               NextHead(css, i, <<<<"f", "o", "n", "t", "-", "w", "e", "i", "g", "h", "t", ":">>>>, TRUE) + Len(<<"f", "o", "n", "t", "-", "w", "e", "i", "g", "h", "t", ":">>))

extractFontWeights(css) == ScanWeight(css, 1)

\* /<property>:\s*([^;]+)/gi behind the colon: w white-space characters
\* stand from position p on and m characters other than ';' behind them.
\* When none stands there, \s* gives its last character to the group.
TextFound(css, i, type, property, p, w, m) ==
    IF m > 0
    THEN <<CSSValue(type, trim(SubSeq(css, p + w, p + w + m - 1)), property)>>
            \o ScanText(css, p + w + m, type, property)
    ELSE IF w > 0
    THEN <<CSSValue(type, trim(SubSeq(css, p + w - 1, p + w - 1)), property)>>
            \o ScanText(css, p + w, type, property)
    ELSE ScanText(css, i + 1, type, property)

TextBehind(css, i, type, property, p, w) ==
    TextFound(css, i, type, property, p, w, RunLen(css, p + w, {";"}, TRUE))

TextAt(css, i, type, property) ==
    IF i > Len(css) THEN <<>>
    ELSE TextBehind(css, i, type, property, i + Len(property) + 1,
            RunLen(css, i + Len(property) + 1, SpaceChars, FALSE))

ScanText(css, i, type, property) ==
    TextAt(css, NextHead(css, i, <<property \o <<":">>>>, TRUE), type, property)

extractFontFamilies(css) == ScanText(css, 1, "font-family", <<"f", "o", "n", "t", "-", "f", "a", "m", "i", "l", "y">>)

extractShadows(css) == ScanText(css, 1, "shadow", <<"b", "o", "x", "-", "s", "h", "a", "d", "o", "w">>)

extractAllValues(css) ==
    extractColors(css) \o extractSpacing(css) \o extractFontSizes(css)
    \o extractFontWeights(css) \o extractFontFamilies(css)
    \o extractBorderRadius(css) \o extractShadows(css)

(***************************************************************************)
(* Validation: validateTokenUsage, suggestTokenForValue (tools/validate.ts)*)
(***************************************************************************)
\* tokens.filter(...) of suggestTokenForValue
IsCategoryToken(type, t) ==
    IF type = "color" THEN t.category = "color"
    ELSE IF type = "spacing" THEN t.category = "spacing"
    ELSE IF type = "font-size" THEN Contains(t.name, <<"f", "o", "n", "t", "-", "s", "i", "z", "e">>)
    ELSE IF type = "font-weight" THEN Contains(t.name, <<"f", "o", "n", "t", "-", "w", "e", "i", "g", "h", "t">>)
    ELSE IF type = "border-radius" THEN t.category = "border"
    ELSE IF type = "shadow" THEN t.category = "shadow"
    ELSE FALSE

\* the last token from position i on that the filter keeps, or NullValue
RECURSIVE LastCategoryToken(_, _, _)
LastCategoryToken(type, tokens, i) ==
    IF i > Len(tokens) THEN NullValue
    ELSE IF LastCategoryToken(type, tokens, i + 1) # NullValue
        THEN LastCategoryToken(type, tokens, i + 1)
    ELSE IF IsCategoryToken(type, tokens[i]) THEN tokens[i]
    ELSE NullValue

\* the first token from position i on that the filter keeps, or NullValue
RECURSIVE FirstCategoryToken(_, _, _)
FirstCategoryToken(type, tokens, i) ==
    IF i > Len(tokens) THEN NullValue
    ELSE IF IsCategoryToken(type, tokens[i]) THEN tokens[i]
    ELSE FirstCategoryToken(type, tokens, i + 1)

NoMatchingTokens == <<"N", "o", " ", "m", "a", "t", "c", "h", "i", "n", "g", " ", "t", "o", "k", "e", "n", "s", " ", "f", "o", "u", "n", "d">>

ConsiderUsing(closest) ==
    IF closest = NullValue THEN NoMatchingTokens
    ELSE <<"C", "o", "n", "s", "i", "d", "e", "r", " ", "u", "s", "i", "n", "g", " ", "t", "o", "k", "e", "n", ":", " ">> \o closest.name \o <<" ", "(">> \o closest.value \o <<")">>

suggestTokenForValue(value, tokens) ==
    ConsiderUsing(FirstCategoryToken(value.type, tokens, 1))

ValidationIssue(value, suggestion) ==
    [type |-> "hard-coded-value", value |-> value.value, property |-> value.property,
     suggestion |-> suggestion, severity |-> "warning"]

\* if (!matchingToken): null and the empty name are both falsy
IsFalsy(matchingToken) == matchingToken = Null \/ matchingToken = <<>>

\* the loop over the extracted values
RECURSIVE CollectIssues(_, _, _)
CollectIssues(extractedValues, tokens, i) ==
    IF i > Len(extractedValues) THEN <<>>
    ELSE (IF IsFalsy(findMatchingToken(extractedValues[i].value, tokens))
          THEN <<ValidationIssue(extractedValues[i],
                                 suggestTokenForValue(extractedValues[i], tokens))>>
          ELSE <<>>)
         \o CollectIssues(extractedValues, tokens, i + 1)

\* issues.filter(i => i.type === 'hard-coded-value').length
CountHardCoded(issues) ==
    Cardinality({i \in 1..Len(issues) : issues[i].type = "hard-coded-value"})

\* the report counting the checked values as issues
ValidationReportCountingChecked(issues, totalChecked) ==
    [valid |-> Len(issues) = 0,
     issueCount |-> totalChecked,
     issues |-> issues,
     summary |-> [hardCodedValues |-> CountHardCoded(issues),
                  missingTokens |-> 0,
                  totalChecked |-> totalChecked]]

ValidationReport(issues, totalChecked) ==
    [valid |-> Len(issues) = 0,
     issueCount |-> Len(issues),
     issues |-> issues,
     summary |-> [hardCodedValues |-> CountHardCoded(issues),
                  missingTokens |-> 0,
                  totalChecked |-> totalChecked]]

ReportOf(extractedValues, tokens) ==
    ValidationReport(CollectIssues(extractedValues, tokens, 1), Len(extractedValues))

validateTokenUsage(code, tokens) == ReportOf(extractAllValues(code), tokens)

(***************************************************************************)
(* Replacement: replaceHardCodedValues (tools/replace.ts)                  *)
(***************************************************************************)
\* `var(--${matchingToken})`
VarReference(tokenName) == <<"v", "a", "r", "(", "-", "-">> \o tokenName \o <<")">>

ReplacementSuggestion(value, tokenName) ==
    [original |-> value.value, replacement |-> VarReference(tokenName),
     tokenName |-> tokenName, property |-> value.property]

\* text.replace(new RegExp(escapeRegex(pattern), 'g'), replacement): every
\* occurrence of the pattern, found from the left without overlap, becomes
\* the replacement; escapeRegex makes every character of the pattern stand
\* for itself, and no token name of the model holds a '$'.  The empty
\* pattern matches before every character and at the end.
\* The first position from i on where the pattern stands, or 0
NextOccurrence(text, pattern, i) ==
    IF \E j \in i..Len(text) : MatchesAt(text, j, pattern)
    THEN CHOOSE j \in i..Len(text) :
            /\ MatchesAt(text, j, pattern)
            /\ \A k \in i..(j - 1) : ~MatchesAt(text, k, pattern)
    ELSE 0

\* the replacement before every character from position i on and at the end
ReplaceEmptyFrom(text, replacement, i) ==
    [k \in 1..((Len(text) - i + 1) * (Len(replacement) + 1) + Len(replacement)) |->
        IF (k - 1) % (Len(replacement) + 1) < Len(replacement)
        THEN replacement[((k - 1) % (Len(replacement) + 1)) + 1]
        ELSE text[i + ((k - 1) \div (Len(replacement) + 1))]]

RECURSIVE ReplaceAllFrom(_, _, _, _)
ReplaceOccurrence(text, pattern, replacement, i, j) ==
    IF j = 0 THEN SubSeq(text, i, Len(text))
    ELSE SubSeq(text, i, j - 1) \o replacement
            \o ReplaceAllFrom(text, pattern, replacement, j + Len(pattern))

ReplaceAllFrom(text, pattern, replacement, i) ==
    IF pattern = <<>> THEN ReplaceEmptyFrom(text, replacement, i)
    ELSE ReplaceOccurrence(text, pattern, replacement, i, NextOccurrence(text, pattern, i))

ReplaceAll(text, pattern, replacement) == ReplaceAllFrom(text, pattern, replacement, 1)

\* the loop over the extracted values: the replacements pushed so far and
\* the code as rewritten so far
RECURSIVE ReplaceLoop(_, _, _, _, _, _)
ReplaceStep(extractedValues, tokens, autofix, i, replacements, fixedCode, matchingToken) ==
    IF IsFalsy(matchingToken)
    THEN ReplaceLoop(extractedValues, tokens, autofix, i + 1, replacements, fixedCode)
    ELSE ReplaceLoop(extractedValues, tokens, autofix, i + 1,
            Append(replacements, ReplacementSuggestion(extractedValues[i], matchingToken)),
            IF autofix
            THEN ReplaceAll(fixedCode, extractedValues[i].value, VarReference(matchingToken))
            ELSE fixedCode)

ReplaceLoop(extractedValues, tokens, autofix, i, replacements, fixedCode) ==
    IF i > Len(extractedValues)
    THEN [replacements |-> replacements, fixedCode |-> fixedCode]
    ELSE ReplaceStep(extractedValues, tokens, autofix, i, replacements, fixedCode,
            findMatchingToken(extractedValues[i].value, tokens))

ReplacementResult(code, autofix, done) ==
    [originalCode |-> code,
     fixedCode |-> IF autofix THEN done.fixedCode ELSE code,
     replacements |-> done.replacements,
     replacementCount |-> Len(done.replacements)]

\* the replacements applied whatever autofix says
replaceHardCodedValuesFixing(code, tokens, autofix) ==
    ReplacementResult(code, TRUE,
        ReplaceLoop(extractAllValues(code), tokens, TRUE, 1, <<>>, code))

replaceHardCodedValues(code, tokens, autofix) ==
    ReplacementResult(code, autofix,
        ReplaceLoop(extractAllValues(code), tokens, autofix, 1, <<>>, code))

(***************************************************************************)
(* Spec: the core operations called one after another on one catalog       *)
(***************************************************************************)
CoreUniverse ==
    << Token(<<"c", "o", "l", "o", "r", "-", "p", "r", "i", "m", "a", "r", "y">>, <<"#", "0", "0", "6", "6", "C", "C">>, "color"),
       Token(<<"s", "p", "a", "c", "e", "-", "m", "d">>, <<"1", "6", "p", "x">>, "spacing"),
       Token(<<"c", "o", "l", "o", "r", "-", "b", "a", "c", "k", "g", "r", "o", "u", "n", "d">>, <<"#", "F", "F", "F", "F", "F", "F">>, "color"),
       Token(<<"s", "p", "a", "c", "e", "-", "x", "s">>, <<"6", "p", "x">>, "spacing"),
       Token(<<"c", "o", "l", "o", "r", "-", "t", "e", "x", "t">>, <<"#", "2", "1", "2", "5", "2", "9">>, "color"),
       Token(<<"f", "o", "n", "t", "-", "w", "e", "i", "g", "h", "t", "-", "b", "o", "l", "d">>, <<"b", "o", "l", "d">>, "typography") >>

CoreCatalogs ==
    {CoreUniverse, Reverse(CoreUniverse), SubSeq(CoreUniverse, 1, 3), designTokens}

CoreValues == {<<"#", "0", "0", "6", "6", "c", "c">>, <<"1", "6", "p", "x">>, <<"1", "2", "p", "x">>, <<"1", "r", "e", "m">>}

CoreCategories == {"", "spacing"}

CoreCodes ==
    {<<".", "a", " ", "{", " ", "c", "o", "l", "o", "r", ":", " ", "#", "0", "0", "6", "6", "C", "C", ";", " ", "p", "a", "d", "d", "i", "n", "g", ":", " ", "1", "6", "p", "x", ";", " ", "}">>,
     <<"m", "a", "r", "g", "i", "n", ":", " ", "6", "p", "x", ";", " ", "w", "i", "d", "t", "h", ":", " ", "1", "6", "p", "x">>,
     <<"f", "o", "n", "t", "-", "w", "e", "i", "g", "h", "t", ":", " ", "b", "o", "l", "d", ";", " ", "b", "o", "r", "d", "e", "r", "-", "r", "a", "d", "i", "u", "s", ":", " ", "4", "p", "x">>}

CoreNames ==
    {<<"c", "o", "l", "o", "r", "-", "p", "r", "i", "m", "a", "r", "y">>, <<"c", "o", "l", "o", "r", "-", "b", "a", "c", "k", "g", "r", "o", "u", "n", "d">>, <<"c", "o", "l", "o", "r", "-", "t", "e", "x", "t">>, <<"o", "p", "-", "c", "o", "l", "o", "r", "-", "w", "h", "i", "t", "e">>,
     <<"c", "o", "l", "o", "r", "-", "m", "i", "s", "s", "i", "n", "g">>}

CoreBrandColors ==
    {<<>>} \cup [{<<"p", "r", "i", "m", "a", "r", "y">>} -> {<<"#", "F", "F", "0", "0", "0", "0">>}]
    \cup [{<<"p", "r", "i", "m", "a", "r", "y">>, <<"n", "e", "u", "t", "r", "a", "l">>} -> {<<"#", "E", "8", "E", "E", "F", "7">>}]

ValidateTokenUsageCall(codes) ==
    \E code \in codes :
        /\ op' = "validateTokenUsage"
        /\ args' = [code |-> code]
        /\ result' = validateTokenUsage(code, catalog)
        /\ catalog' = TokensAfterValidateTokenUsage(catalog)

\* (args.autofix as boolean) ?? false
AutofixOrFalse(request) ==
    IF "autofix" \in DOMAIN request THEN request.autofix ELSE FALSE

\* the request carries the code and, optionally, autofix
ReplaceHardCodedValuesCall(codes) ==
    \E request \in [code : codes, autofix : BOOLEAN] \cup [code : codes] :
        /\ op' = "replaceHardCodedValues"
        /\ args' = request
        /\ result' = replaceHardCodedValues(request.code, catalog, AutofixOrFalse(request))
        /\ catalog' = TokensAfterReplaceHardCodedValues(catalog)

Init ==
    /\ catalog \in CoreCatalogs
    /\ op = "init"
    /\ args = NoResult
    /\ result = NoResult

Next ==
    \/ FindMatchingTokenCall(CoreValues)
    \/ SuggestTokenMigrationCall(CoreValues, CoreCategories)
    \/ ValidateTokenUsageCall(CoreCodes)
    \/ ReplaceHardCodedValuesCall(CoreCodes)
    \/ CheckTokenContrastCall(CoreNames)
    \/ CheckAllCombinationsCall(CoreNames)
    \/ GenerateThemeCall(CoreBrandColors)

Spec == Init /\ [][Next]_vars

ButtonRule == <<".", "b", "u", "t", "t", "o", "n", " ", "{", " ", "b", "a", "c", "k", "g", "r", "o", "u", "n", "d", ":", " ", "#", "0", "0", "6", "6", "C", "C", ";", " ", "p", "a", "d", "d", "i", "n", "g", ":", " ", "1", "6", "p", "x", ";", " ", "f", "o", "n", "t", "-", "s", "i", "z", "e", ":", " ", "1", "4", "p", "x", ";", " ", "}">>

Declaration(property, value) == property \o <<":", " ">> \o value \o <<";">>

DeclProperties ==
    {<<"c", "o", "l", "o", "r">>, <<"p", "a", "d", "d", "i", "n", "g">>, <<"m", "a", "r", "g", "i", "n">>, <<"f", "o", "n", "t", "-", "s", "i", "z", "e">>, <<"f", "o", "n", "t", "-", "w", "e", "i", "g", "h", "t">>,
     <<"f", "o", "n", "t", "-", "f", "a", "m", "i", "l", "y">>, <<"b", "o", "r", "d", "e", "r", "-", "r", "a", "d", "i", "u", "s">>, <<"b", "o", "x", "-", "s", "h", "a", "d", "o", "w">>}

DeclValues ==
    {<<"#", "0", "0", "6", "6", "C", "C">>, <<"#", "0", "0", "0", "0", "0", "0">>, <<"1", "6", "p", "x">>, <<"2", "2", "p", "x">>, <<"1", "4", "p", "x">>, <<"1", ".", "5", "r", "e", "m">>, <<"4", "0", "0">>,
     <<"b", "o", "l", "d">>, <<"A", "r", "i", "a", "l">>, <<"5", "0", "%">>, <<"r", "g", "b", "(", "0", ",", " ", "0", ",", " ", "0", ")">>, <<"0", " ", "1", "p", "x", " ", "2", "p", "x", " ", "#", "0", "0", "0", "0", "0", "0">>}

\* the rule of the scenario, every single declaration, and texts with a
\* literal that occurs twice, inside another literal, or in two kinds, and
\* with '#' before 3 to 8 hexadecimal digits
ExtractCodes ==
    {ButtonRule}
    \cup {Declaration(p, v) : p \in DeclProperties, v \in DeclValues}
    \cup {<<"a", " ", "{", " ", "p", "a", "d", "d", "i", "n", "g", ":", " ", "1", "6", "p", "x", ";", " ", "m", "a", "r", "g", "i", "n", ":", " ", "1", "6", "p", "x", ";", " ", "}">>,
          <<"w", "i", "d", "t", "h", ":", " ", "1", "6", "p", "x", ";", " ", "h", "e", "i", "g", "h", "t", ":", " ", "1", "1", "6", "p", "x">>,
          <<"c", "o", "l", "o", "r", ":", " ", "#", "0", "0", "6", "6", "C", "C", ";", " ", "b", "o", "r", "d", "e", "r", ":", " ", "1", "p", "x", " ", "s", "o", "l", "i", "d", " ", "#", "0", "0", "6", "6", "c", "c">>,
          <<"f", "o", "n", "t", "-", "s", "i", "z", "e", ":", " ", "d", ".", "p", "x", ";", " ", "f", "o", "n", "t", "-", "w", "e", "i", "g", "h", "t", ":", " ", "b", "o", "l", "d", "e", "r">>,
          <<"f", "o", "n", "t", "-", "w", "e", "i", "g", "h", "t", ":", " ", "l", "i", "g", "h", "t", "e", "r", ";", " ", "f", "o", "n", "t", "-", "f", "a", "m", "i", "l", "y", ":", " ", "G", "e", "o", "r", "g", "i", "a">>,
          <<"c", "o", "l", "o", "r", ":", " ", "#", "a", "b", "c", "d", ";", " ", "b", "a", "c", "k", "g", "r", "o", "u", "n", "d", ":", " ", "#", "1", "2", "3", "4", "5", ";">>,
          <<"c", "o", "l", "o", "r", ":", " ", "#", "1", "2", "3", "4", "5", "6", "7", ";", " ", "b", "a", "c", "k", "g", "r", "o", "u", "n", "d", ":", " ", "#", "1", "2", "3", "4", "5", "6", "7", "8", ";", " ", "b", "o", "r", "d", "e", "r", "-", "c", "o", "l", "o", "r", ":", " ", "#", "f", "f", "f">>,
          <<>>}

ExtractUniverse ==
    << Token(<<"c", "o", "l", "o", "r", "-", "p", "r", "i", "m", "a", "r", "y">>, <<"#", "0", "0", "6", "6", "C", "C">>, "color"),
       Token(<<"c", "o", "l", "o", "r", "-", "b", "l", "a", "c", "k">>, <<"#", "0", "0", "0", "0", "0", "0">>, "color"),
       Token(<<"s", "p", "a", "c", "e", "-", "m", "d">>, <<"1", "6", "p", "x">>, "spacing"),
       Token(<<"s", "p", "a", "c", "e", "-", "l", "g">>, <<"2", "4", "p", "x">>, "spacing"),
       Token(<<"f", "o", "n", "t", "-", "s", "i", "z", "e", "-", "s", "m">>, <<"1", "4", "p", "x">>, "typography"),
       Token(<<"f", "o", "n", "t", "-", "s", "i", "z", "e", "-", "x", "l">>, <<"1", ".", "5", "r", "e", "m">>, "typography"),
       Token(<<"f", "o", "n", "t", "-", "w", "e", "i", "g", "h", "t", "-", "n", "o", "r", "m", "a", "l">>, <<"4", "0", "0">>, "typography"),
       Token(<<"f", "o", "n", "t", "-", "w", "e", "i", "g", "h", "t", "-", "b", "o", "l", "d">>, <<"b", "o", "l", "d">>, "typography"),
       Token(<<"r", "a", "d", "i", "u", "s", "-", "m", "d">>, <<"8", "p", "x">>, "border"),
       Token(<<"r", "a", "d", "i", "u", "s", "-", "f", "u", "l", "l">>, <<"5", "0", "%">>, "border"),
       Token(<<"s", "h", "a", "d", "o", "w", "-", "l", "g">>, <<"0", " ", "4", "p", "x", " ", "8", "p", "x", " ", "#", "0", "0", "0", "0", "0", "0">>, "shadow"),
       Token(<<"s", "h", "a", "d", "o", "w", "-", "s", "m">>, <<"0", " ", "1", "p", "x", " ", "2", "p", "x", " ", "#", "0", "0", "0", "0", "0", "0">>, "shadow"),
       Token(<<"f", "o", "n", "t", "-", "f", "a", "m", "i", "l", "y", "-", "b", "a", "s", "e">>, <<"A", "r", "i", "a", "l">>, "typography") >>

ExtractCatalogs ==
    {ExtractUniverse, Reverse(ExtractUniverse), SubSeq(ExtractUniverse, 1, 3), <<>>}

ExtractAllValuesCall(codes) ==
    \E css \in codes :
        /\ op' = "extractAllValues"
        /\ args' = [css |-> css]
        /\ result' = extractAllValues(css)
        /\ UNCHANGED catalog

InitExtract ==
    /\ catalog \in ExtractCatalogs
    /\ op = "init"
    /\ args = NoResult
    /\ result = NoResult

\* the operations are pure: one call on each catalog shows every result
NextExtract ==
    \/ op = "init" /\ ExtractAllValuesCall(ExtractCodes)
    \/ op = "init" /\ ValidateTokenUsageCall(ExtractCodes)
    \/ op = "init" /\ ReplaceHardCodedValuesCall(ExtractCodes)

SpecExtract == InitExtract /\ [][NextExtract]_vars

\* a number (digits and dots) followed by one of the units
IsNumberWithUnit(v, units) ==
    \E k \in 1..Len(units) :
        /\ endsWith(v, units[k])
        /\ Len(v) > Len(units[k])
        /\ \A i \in 1..(Len(v) - Len(units[k])) : v[i] \in NumberChars

HasValue(values, type, value, property) ==
    \E k \in 1..Len(values) : values[k] = CSSValue(type, value, property)

\* C12 (as claimed): the button rule yields exactly three values, the colour
\* #0066CC, the spacing 16px of property padding and the font size 14px;
\* and every declaration font-size: <number><px|rem|em>, border-radius:
\* <number><unit> or font-weight: <three digits> yields a value of its kind.
C12_DeclarationsExtracted ==
    op = "extractAllValues" =>
        /\ args.css = ButtonRule =>
            /\ Len(result) = 3
            /\ HasValue(result, "color", <<"#", "0", "0", "6", "6", "C", "C">>, undefined)
            /\ HasValue(result, "spacing", <<"1", "6", "p", "x">>, <<"p", "a", "d", "d", "i", "n", "g">>)
            /\ HasValue(result, "font-size", <<"1", "4", "p", "x">>, <<"f", "o", "n", "t", "-", "s", "i", "z", "e">>)
        /\ \A v \in DeclValues :
            /\ (args.css = Declaration(<<"f", "o", "n", "t", "-", "s", "i", "z", "e">>, v) /\ IsNumberWithUnit(v, LengthUnits))
                => HasValue(result, "font-size", v, <<"f", "o", "n", "t", "-", "s", "i", "z", "e">>)
            /\ (args.css = Declaration(<<"b", "o", "r", "d", "e", "r", "-", "r", "a", "d", "i", "u", "s">>, v) /\ IsNumberWithUnit(v, RadiusUnits))
                => HasValue(result, "border-radius", v, <<"b", "o", "r", "d", "e", "r", "-", "r", "a", "d", "i", "u", "s">>)
            /\ (args.css = Declaration(<<"f", "o", "n", "t", "-", "w", "e", "i", "g", "h", "t">>, v) /\ Len(v) = 3 /\ AllDigits(v))
                => HasValue(result, "font-weight", v, <<"f", "o", "n", "t", "-", "w", "e", "i", "g", "h", "t">>)

\* C17 (as claimed): extractAllValues never returns one literal under two
\* kinds: two results with the same value have the same type, also for a
\* hex colour that is the whole value of a box-shadow or font-family
\* declaration.
C17_OneKindPerLiteral ==
    op = "extractAllValues" =>
        \A i \in 1..Len(result) : \A j \in 1..Len(result) :
            result[i].value = result[j].value => result[i].type = result[j].type

\* the value equals a stored value after normalization
HasExactMatch(value, tokens) ==
    \E i \in 1..Len(tokens) : normalizeValue(tokens[i].value) = normalizeValue(value)

\* the extracted values that have an exact match, in extraction order
MatchedValues(values, tokens) ==
    SelectSeq(values, LAMBDA v : HasExactMatch(v.value, tokens))

\* one replacement var(--<tokenName>) for each matched value, in order, the
\* token being one that stores the value
ListsReplacements(replacements, matched, tokens) ==
    /\ Len(replacements) = Len(matched)
    /\ \A k \in 1..Len(matched) :
        /\ replacements[k].original = matched[k].value
        /\ replacements[k].property = matched[k].property
        /\ replacements[k].replacement = <<"v", "a", "r", "(", "-", "-">> \o replacements[k].tokenName \o <<")">>
        /\ \E i \in 1..Len(tokens) :
            /\ tokens[i].name = replacements[k].tokenName
            /\ normalizeValue(tokens[i].value) = normalizeValue(matched[k].value)

\* C18: replaceHardCodedValues with autofix omitted or false returns
\* fixedCode identical to the code given, lists one replacement
\* var(--<tokenName>) for every extracted value with an exact catalog match,
\* and replacementCount is the length of that list.
C18_SuggestionsLeaveCode ==
    (/\ op = "replaceHardCodedValues"
     /\ "autofix" \notin DOMAIN args \/ ~args.autofix)
    =>  /\ result.fixedCode = args.code
        /\ result.originalCode = args.code
        /\ ListsReplacements(result.replacements,
                MatchedValues(extractAllValues(args.code), catalog), catalog)
        /\ result.replacementCount = Len(result.replacements)

\* autofix is omitted and two values are listed for replacement
C18_Witness ==
    /\ op = "replaceHardCodedValues"
    /\ "autofix" \notin DOMAIN args
    /\ result.replacementCount = 2
    /\ result.fixedCode = args.code
    /\ result.replacements[1].replacement = <<"v", "a", "r", "(", "-", "-", "c", "o", "l", "o", "r", "-", "p", "r", "i", "m", "a", "r", "y", ")">>

\* autofix is false and a value is listed for replacement
C18_WitnessFalse ==
    /\ op = "replaceHardCodedValues"
    /\ "autofix" \in DOMAIN args
    /\ ~args.autofix
    /\ result.replacementCount > 0
    /\ result.fixedCode = args.code

\* the token is appropriate for a value of the kind
KindFits(type, t) ==
    \/ type = "color" /\ t.category = "color"
    \/ type = "spacing" /\ t.category = "spacing"
    \/ type = "border-radius" /\ t.category = "border"
    \/ type = "shadow" /\ t.category = "shadow"
    \/ type = "font-size" /\ Contains(t.name, <<"f", "o", "n", "t", "-", "s", "i", "z", "e">>)
    \/ type = "font-weight" /\ Contains(t.name, <<"f", "o", "n", "t", "-", "w", "e", "i", "g", "h", "t">>)

FittingTokens(type, tokens) == {i \in 1..Len(tokens) : KindFits(type, tokens[i])}

\* the suggestion that names the token at the least of the positions
SuggestionOfFirst(tokens, fits) ==
    IF fits = {} THEN <<"N", "o", " ", "m", "a", "t", "c", "h", "i", "n", "g", " ", "t", "o", "k", "e", "n", "s", " ", "f", "o", "u", "n", "d">>
    ELSE <<"C", "o", "n", "s", "i", "d", "e", "r", " ", "u", "s", "i", "n", "g", " ", "t", "o", "k", "e", "n", ":", " ">>
            \o tokens[CHOOSE i \in fits : \A k \in fits : i <= k].name
            \o <<" ", "(">> \o tokens[CHOOSE i \in fits : \A k \in fits : i <= k].value \o <<")">>

\* the extracted values without an exact match, in extraction order
UnmatchedValues(values, tokens) ==
    SelectSeq(values, LAMBDA v : ~HasExactMatch(v.value, tokens))

SuggestsFirstOfKind(issues, unmatched, tokens) ==
    /\ Len(issues) = Len(unmatched)
    /\ \A k \in 1..Len(unmatched) :
        /\ issues[k].value = unmatched[k].value
        /\ issues[k].suggestion =
            SuggestionOfFirst(tokens, FittingTokens(unmatched[k].type, tokens))

C20_WitnessFontFamily ==
    /\ op = "validateTokenUsage"
    /\ catalog = ExtractUniverse
    /\ \E k \in 1..Len(result.issues) :
        /\ result.issues[k].value = <<"G", "e", "o", "r", "g", "i", "a">>
        /\ result.issues[k].suggestion = <<"N", "o", " ", "m", "a", "t", "c", "h", "i", "n", "g", " ", "t", "o", "k", "e", "n", "s", " ", "f", "o", "u", "n", "d">>

\* C24 (as claimed): extraction returns a hex literal as a colour only for
\* '#' followed by exactly 3 or exactly 6 hexadecimal digits; '#' followed by
\* 4 or 5 hexadecimal digits is not returned as a colour.
C24_HexOfThreeOrSixDigits ==
    op = "extractAllValues" =>
        \A k \in 1..Len(result) :
            (result[k].type = "color" /\ Head(result[k].value) = "#")
                => Len(result[k].value) \in {4, 7}

(***************************************************************************)
(* Autofix: what the rewritten code holds                                  *)
(***************************************************************************)
\* the call rewrote the code
IsAutofixCall == op = "replaceHardCodedValues" /\ AutofixOrFalse(args)

\* the entries of the replacements listing the literal
EntriesOf(replacements, original) ==
    {k \in 1..Len(replacements) : replacements[k].original = original}

\* the places of the code where a listed literal stands: the position and
\* the first entry listing the literal
LiteralOccurrences(code, replacements) ==
    {<<j, k>> \in (1..Len(code)) \X (1..Len(replacements)) :
        /\ MatchesAt(code, j, replacements[k].original)
        /\ \A m \in EntriesOf(replacements, replacements[k].original) : k <= m}

\* no two of the chosen occurrences share a character, and no literal is
\* chosen at more places than entries list it
OnePerEntry(chosen, replacements) ==
    /\ \A x \in chosen : \A y \in chosen :
        x[1] < y[1] => x[1] + Len(replacements[x[2]].original) <= y[1]
    /\ \A x \in chosen : \A y \in chosen : x[1] = y[1] => x = y
    /\ \A x \in chosen :
        Cardinality({y \in chosen : y[2] = x[2]})
            <= Cardinality(EntriesOf(replacements, replacements[x[2]].original))

\* the code with the chosen occurrences, and nothing else, replaced by the
\* references of their entries
RECURSIVE RewriteChosen(_, _, _, _)
RewriteChosen(code, replacements, chosen, i) ==
    IF \A x \in chosen : x[1] < i THEN SubSeq(code, i, Len(code))
    ELSE LET x == CHOOSE y \in chosen :
                    y[1] >= i /\ \A z \in chosen : z[1] >= i => y[1] <= z[1]
         IN SubSeq(code, i, x[1] - 1) \o replacements[x[2]].replacement
                \o RewriteChosen(code, replacements, chosen,
                                 x[1] + Len(replacements[x[2]].original))

\* C26 (as claimed): with autofix, replaceHardCodedValues changes only the
\* extracted literals: fixedCode is the input with occurrences of the
\* matched literals replaced by their references, one occurrence at most for
\* each extracted and matched literal, and every other character unchanged
\* (6px is not rewritten inside an unextracted 16px).
C26_OnlyExtractedLiteralsChanged ==
    IsAutofixCall =>
        \E chosen \in SUBSET LiteralOccurrences(args.code, result.replacements) :
            /\ OnePerEntry(chosen, result.replacements)
            /\ result.fixedCode
                = RewriteChosen(args.code, result.replacements, chosen, 1)

\* C27 (as claimed): with autofix every reported replacement is applied: for
\* each entry of replacements, fixedCode contains the entry's var(--token)
\* reference, whatever the order of the extracted values and also when one
\* matched literal is a part of another matched literal.
C27_EveryReplacementApplied ==
    IsAutofixCall =>
        \A k \in 1..Len(result.replacements) :
            Contains(result.fixedCode, result.replacements[k].replacement)

(***************************************************************************)
(* The validation report                                                   *)
(***************************************************************************)
\* the extracted values no stored value equals after normalization
UnmatchedCount(values, tokens) ==
    Cardinality({i \in 1..Len(values) : ~HasExactMatch(values[i].value, tokens)})

SelfConsistent(report, values, tokens) ==
    /\ report.summary.totalChecked = Len(values)
    /\ report.issueCount = UnmatchedCount(values, tokens)
    /\ report.issueCount = Len(report.issues)
    /\ report.summary.hardCodedValues = report.issueCount
    /\ \A i \in 1..Len(report.issues) : report.issues[i].type = "hard-coded-value"
    /\ report.valid <=> report.issueCount = 0

C28_WitnessValid ==
    /\ op = "validateTokenUsage"
    /\ result.summary.totalChecked >= 2
    /\ result.issueCount = 0
    /\ result.valid

\* nothing is extracted: the report is valid
C28_WitnessNothing ==
    /\ op = "validateTokenUsage"
    /\ args.code # <<>>
    /\ result.summary.totalChecked = 0
    /\ result.valid

====
